---- MODULE Spec2Model ----
(***************************************************************************)
(* Execution core of the Krypper L1 node: the in-memory StateDB with its   *)
(* snapshot stack, the tier-reward Executor, and the Blockchain manager.   *)
(*                                                                         *)
(* Hashes are modelled by their preimages (SHA-256 is taken to be          *)
(* injective): an account hash is the record of the hashed fields, a      *)
(* header hash is the header record, a transaction id is the transaction  *)
(* record.  Balances stand for big.Int values and are unbounded integers. *)
(***************************************************************************)
EXTENDS Integers, Sequences, FiniteSets, Bags, TLC

VARIABLES
    accounts,        \* StateDB.accounts: Address -> Account (partial map)
    snapshots,       \* StateDB.snapshots: stack of account maps
    execCurrent,     \* Executor.current: pointer to a block header
    blocks,          \* heap of committed Block objects, keyed by cached hash
    blocksByHash,    \* Blockchain.blocksByHash
    blocksByHeight,  \* Blockchain.blocksByHeight
    head,            \* Blockchain.head
    config,          \* Executor.config (ChainConfig)
    last,            \* the last call and what it returned
    lowBal,          \* lowest balance seen in any intermediate state of the last call
    mark,            \* the handle of the last Snapshot() call and the map it captured
    ledger,          \* snapshot handles issued and consumed so far, and one outer snapshot
    pending,         \* Mempool.pending: slice of transactions
    admitted,        \* the pending transactions in the order AddTx admitted them
    inflight,        \* the AddBlock call in progress, with its position
    witnessQueue,    \* Node.witnessQueue: slice of witnesses
    validatorVotes,  \* Node.validatorVotes: height -> slice of votes
    network,         \* requests posted to peers and not yet handled
    peers,           \* per node of the network: its accounts, pool, blocks and head
    traffic,         \* counts of client submissions, produced blocks and posted requests
    witnessLog,      \* the addresses passed to AddWitness and those placed in candidates, in order
    miner,           \* Node.Running and the miningLoop goroutines with their positions
    producer,        \* the dry run of createAndSubmitBlock in progress, with its position
    callers          \* the Snapshot() calls in progress, with their positions

vars == <<accounts, snapshots, execCurrent, blocks, blocksByHash, blocksByHeight, head, config, last, lowBal, mark,
         ledger, pending, admitted, inflight, witnessQueue, validatorVotes, network, peers, traffic,
         witnessLog, miner, producer, callers>>

\* The goroutines of the node and what they are in the middle of.
stepVars == <<miner, producer, callers>>

\* The Node's own fields and the peer network.
nodeVars == <<witnessQueue, validatorVotes, network, peers, traffic, witnessLog, stepVars>>

(***************************************************************************)
(* Bounds of the model.                                                    *)
(***************************************************************************)
MaxSnapshots == 2

NoError == "ok"
NoMark == [id |-> -1, accounts |-> <<>>]
\* No outer snapshot is being followed.
NoOuter == [id |-> -1, accounts |-> <<>>, nested |-> FALSE]
\* No handle was issued or consumed yet.
NoLedger == [issued |-> {}, consumed |-> {}, outer |-> NoOuter]
\* No AddBlock call is in progress.
Idle == [pc |-> "idle"]
\* Number of nodes in the peer network.
NumNodes == 2
Nodes == 1 .. NumNodes
\* A node of the network before it is set up.
NoPeer == [pending |-> <<>>]

\* No witness was passed to AddWitness yet.
NoWitnesses == [added |-> <<>>, used |-> <<>>]

\* No miningLoop goroutine is alive.  A loop is at check (about to call
\* IsRunning), at wait (blocked on the ticker) or at round (the tick was
\* received); loops counts the goroutines at each position.
NoLoops == [check |-> 0, wait |-> 0, round |-> 0]

\* The two contexts that call StateDB.Snapshot on their own: the producer's
\* dry run and Chain.AddBlock.
Contexts == {"producer", "chain"}

\* No Snapshot() call was made yet.
NoCalls == [c \in Contexts |-> Idle]

\* NewNode leaves Running false and starts no goroutine; no dry run and no
\* Snapshot() call is in progress.
StepInit ==
    /\ miner = [running |-> FALSE, starts |-> 0, loops |-> NoLoops]
    /\ producer = Idle
    /\ callers = NoCalls

\* NewNode: empty witness queue and vote map; nothing posted yet.
NodeInit ==
    /\ witnessQueue = <<>>
    /\ validatorVotes = <<>>
    /\ network = EmptyBag
    /\ peers = [n \in Nodes |-> NoPeer]
    /\ traffic = [submitted |-> 0, produced |-> 0, posted |-> 0]
    /\ witnessLog = NoWitnesses
    /\ StepInit

(***************************************************************************)
(* Addresses.  ZeroAddress is Address{}; the others are distinct non-zero  *)
(* addresses.                                                              *)
(***************************************************************************)
ZeroAddress == "0x00"
RewardPool == "R"
Address == {"A", "B", "P", "V", "W", RewardPool}

IsZero(a) == a = ZeroAddress

(***************************************************************************)
(* Account (balance, nonce); codeHash, storageRoot and frozen are never    *)
(* written by any StateDB method and stay at their defaults.               *)
(***************************************************************************)
NewAccount == [balance |-> 0, nonce |-> 0]

Min(S) == CHOOSE x \in S : \A y \in S : x <= y

EmptyMap == [a \in {} |-> NewAccount]

\* Account.Hash: digest of address, balance, nonce (and the constant fields).
AccountHash(addr, acc) == [address |-> addr, balance |-> acc.balance, nonce |-> acc.nonce]

\* Account.AddBalance
AccountAddBalance(acc, amount) ==
    IF amount < 0
    THEN [err |-> "amount must be non-negative", acc |-> acc]
    ELSE [err |-> NoError, acc |-> [acc EXCEPT !.balance = @ + amount]]

\* Mutant: SubBalance without the balance comparison.
MutSubBalanceUnchecked(acc, amount) ==
    IF amount < 0
    THEN [err |-> "amount must be non-negative", acc |-> acc]
    ELSE [err |-> NoError, acc |-> [acc EXCEPT !.balance = @ - amount]]

\* Account.SubBalance
AccountSubBalance(acc, amount) ==
    IF amount < 0
    THEN [err |-> "amount must be non-negative", acc |-> acc]
    ELSE IF acc.balance < amount
    THEN [err |-> "insufficient balance", acc |-> acc]
    ELSE [err |-> NoError, acc |-> [acc EXCEPT !.balance = @ - amount]]

\* Mutant: the nonce counter wraps.
MutIncrementNonceWrap(acc) == [acc EXCEPT !.nonce = (@ + 1) % 2]

\* Account.IncrementNonce
AccountIncrementNonce(acc) == [acc EXCEPT !.nonce = @ + 1]

(***************************************************************************)
(* StateDB.  The operators take and return the account map; the snapshot   *)
(* operators take and return the pair [accounts, snapshots].               *)
(***************************************************************************)
GetBalance(accts, addr) == IF addr \in DOMAIN accts THEN accts[addr].balance ELSE 0

GetNonce(accts, addr) == IF addr \in DOMAIN accts THEN accts[addr].nonce ELSE 0

CreateAccount(accts, addr) ==
    IF addr \in DOMAIN accts
    THEN accts
    ELSE [a \in DOMAIN accts \cup {addr} |-> IF a = addr THEN NewAccount ELSE accts[a]]

StateAddBalance(accts, addr, amount) ==
    LET created == CreateAccount(accts, addr)
        r == AccountAddBalance(created[addr], amount)
    IN  [err |-> r.err, accounts |-> [created EXCEPT ![addr] = r.acc]]

StateSubBalance(accts, addr, amount) ==
    LET created == CreateAccount(accts, addr)
        r == AccountSubBalance(created[addr], amount)
    IN  [err |-> r.err, accounts |-> [created EXCEPT ![addr] = r.acc]]

StateIncrementNonce(accts, addr) ==
    LET created == CreateAccount(accts, addr)
    IN  [err |-> NoError, accounts |-> [created EXCEPT ![addr] = AccountIncrementNonce(@)]]

\* Snapshot ids are 0-based slice indexes; snapshots[id + 1] is slot id.
\* Mutant: the handle is the length after the push, one past the snapshot.
MutSnapshotOffByOne(st) ==
    [st |-> [accounts |-> st.accounts, snapshots |-> Append(st.snapshots, st.accounts)],
     id |-> Len(st.snapshots) + 1]

StateSnapshot(st) ==
    [st |-> [accounts |-> st.accounts, snapshots |-> Append(st.snapshots, st.accounts)],
     id |-> Len(st.snapshots)]

\* Mutant: the revert pops the stack and forgets to restore the map.
MutRevertNoRestore(st, snapID) ==
    IF snapID < 0 \/ snapID >= Len(st.snapshots)
    THEN st
    ELSE [accounts |-> st.accounts, snapshots |-> SubSeq(st.snapshots, 1, snapID)]

\* Mutant: Snapshot stored the Account pointers instead of copies, so the
\* restored map has the snapshot's addresses with their current contents.
MutRevertAliased(st, snapID) ==
    IF snapID < 0 \/ snapID >= Len(st.snapshots)
    THEN st
    ELSE [accounts |-> [a \in DOMAIN st.snapshots[snapID + 1] |-> st.accounts[a]],
          snapshots |-> SubSeq(st.snapshots, 1, snapID)]

StateRevertToSnapshot(st, snapID) ==
    IF snapID < 0 \/ snapID >= Len(st.snapshots)
    THEN st
    ELSE [accounts |-> st.snapshots[snapID + 1],
          snapshots |-> SubSeq(st.snapshots, 1, snapID)]

\* Mutant: the commit truncates the stack one entry too far, dropping the
\* snapshot below the committed one as well.
MutCommitDropsOlder(st, snapID) ==
    IF snapID < 0 \/ snapID >= Len(st.snapshots) THEN st
    ELSE [st EXCEPT !.snapshots = SubSeq(@, 1, snapID - 1)]

StateCommitSnapshot(st, snapID) ==
    IF snapID < 0 \/ snapID >= Len(st.snapshots)
    THEN st
    ELSE [accounts |-> st.accounts, snapshots |-> SubSeq(st.snapshots, 1, snapID)]

MinBalance(accts) ==
    IF DOMAIN accts = {} THEN 0 ELSE Min({accts[a].balance : a \in DOMAIN accts})

(***************************************************************************)
(* Executor.  A transaction is [signer, nonce, to, value, gasPrice,        *)
(* gasLimit]; signer is the address its signature recovers to, NoSigner    *)
(* when recovery fails.  A header carries the three tier addresses.        *)
(***************************************************************************)
NoSigner == "unrecoverable"
NoReceipt == [success |-> FALSE]
NilPtr == [kind |-> "nil"]

\* RecoverTxSender
RecoverTxSender(tx) ==
    IF tx.signer = NoSigner
    THEN [err |-> "invalid signature", from |-> ZeroAddress]
    ELSE [err |-> NoError, from |-> tx.signer]

\* Transaction.ValidateBasic (chainId and type are fixed in the model)
TxValidateBasic(tx) ==
    IF tx.value < 0 THEN "invalid value"
    ELSE IF tx.gasLimit = 0 THEN "gasLimit must > 0"
    ELSE IF tx.gasPrice < 0 THEN "invalid gas price"
    ELSE NoError

\* ChainConfig as main.go builds it.
ShareTier1 == 70
ShareTier2 == 20
ShareTier3 == 5
SharePool == 5

MainConfig ==
    [RewardPool |-> RewardPool, ShareTier1 |-> ShareTier1, ShareTier2 |-> ShareTier2,
     ShareTier3 |-> ShareTier3, SharePool |-> SharePool]

\* Mutant: the percentage rounds up.
MutCalcPctCeil(base, pct) == IF pct = 0 THEN 0 ELSE (base * pct + 99) \div 100

calcPct(base, pct) == IF pct = 0 THEN 0 ELSE (base * pct) \div 100

\* Mutant: the tier is paid whatever its address.
MutPayTierAnyAddress(accts, addr, amount) ==
    IF amount > 0 THEN StateAddBalance(accts, addr, amount).accounts ELSE accts

\* One tier payment of ExecuteTx: AddBalance when the amount is positive and
\* the header address is not the zero address.
PayTier(accts, addr, amount) ==
    IF amount > 0 /\ ~IsZero(addr) THEN StateAddBalance(accts, addr, amount).accounts ELSE accts

\* Mutant: the reward pool is credited twice.
MutPayPoolTwice(accts, addr, amount) ==
    IF amount > 0 THEN StateAddBalance(accts, addr, 2 * amount).accounts ELSE accts

\* The reward-pool payment: no zero-address test.
PayPool(accts, addr, amount) ==
    IF amount > 0 THEN StateAddBalance(accts, addr, amount).accounts ELSE accts

\* Executor.ExecuteTx on StateDB st under config cfg with e.current = hdr.
\* Returns the error, the StateDB after the call, the receipt and the lowest
\* balance any account held in any intermediate state.
ExecuteTx(st, cfg, hdr, tx) ==
    LET rec == RecoverTxSender(tx)
        from == rec.from
        snap == StateSnapshot(st)
        fee == tx.gasLimit * tx.gasPrice
        total == tx.value + fee
        sub == StateSubBalance(snap.st.accounts, from, total)
        inc == StateIncrementNonce(sub.accounts, from)
        mov == IF tx.value > 0 THEN StateAddBalance(inc.accounts, tx.to, tx.value).accounts
               ELSE inc.accounts
        t1 == calcPct(fee, cfg.ShareTier1)
        t2 == calcPct(fee, cfg.ShareTier2)
        t3 == calcPct(fee, cfg.ShareTier3)
        pfund == calcPct(fee, cfg.SharePool)
        p1 == PayTier(mov, hdr.proposer, t1)
        p2 == PayTier(p1, hdr.validator, t2)
        p3 == PayTier(p2, hdr.witness, t3)
        p4 == PayPool(p3, cfg.RewardPool, pfund)
        failed(e, accts) ==
            [err |-> e,
             st |-> StateRevertToSnapshot([accounts |-> accts, snapshots |-> snap.st.snapshots], snap.id),
             receipt |-> NoReceipt,
             low |-> Min({MinBalance(st.accounts), MinBalance(accts)})]
    IN  IF rec.err # NoError
        THEN [err |-> "invalid signature", st |-> st, receipt |-> NoReceipt, low |-> MinBalance(st.accounts)]
        ELSE IF sub.err # NoError
        THEN failed(sub.err, sub.accounts)
        ELSE [err |-> NoError,
              st |-> StateCommitSnapshot([accounts |-> p4, snapshots |-> snap.st.snapshots], snap.id),
              receipt |-> [txHash |-> tx, success |-> TRUE, gasUsed |-> tx.gasLimit],
              low |-> Min({MinBalance(st.accounts), MinBalance(sub.accounts), MinBalance(inc.accounts),
                          MinBalance(mov), MinBalance(p1), MinBalance(p2), MinBalance(p3), MinBalance(p4)})]

StateDB == [accounts |-> accounts, snapshots |-> snapshots]

\* The header e.current points to: a committed block's, or a loose one.
CurrentHeader ==
    IF execCurrent.kind = "block" THEN blocks[execCurrent.ref].header ELSE execCurrent.hdr

(***************************************************************************)
(* The StateDB taken alone: every exported mutator called with amounts of  *)
(* either sign, and the three snapshot calls with any handle.              *)
(***************************************************************************)
StateAddresses == {"A", "B"}
Amounts == {-1, 1}
StateBalances == 0 .. 1
StateNonces == 0 .. 1
Handles == -1 .. MaxSnapshots

ChainUnchanged ==
    UNCHANGED <<execCurrent, blocks, blocksByHash, blocksByHeight, head, config, pending, admitted, inflight, nodeVars>>

InitState ==
    /\ accounts = EmptyMap
    /\ snapshots = <<>>
    /\ execCurrent = NilPtr
    /\ blocks = EmptyMap
    /\ blocksByHash = EmptyMap
    /\ blocksByHeight = EmptyMap
    /\ head = NilPtr
    /\ config = MainConfig
    /\ last = [op |-> "New", err |-> NoError]
    /\ lowBal = 0
    /\ mark = NoMark
    /\ ledger = NoLedger
    /\ pending = <<>>
    /\ admitted = <<>>
    /\ inflight = Idle
    /\ NodeInit

CallAddBalance(addr, amount) ==
    LET r == StateAddBalance(accounts, addr, amount)
    IN  /\ GetBalance(accounts, addr) + amount \in StateBalances \/ amount < 0
        /\ accounts' = r.accounts
        /\ last' = [op |-> "AddBalance", err |-> r.err]
        /\ lowBal' = MinBalance(r.accounts)
        /\ UNCHANGED <<snapshots, mark, ledger>>
        /\ ChainUnchanged

CallSubBalance(addr, amount) ==
    LET r == StateSubBalance(accounts, addr, amount)
    IN  /\ accounts' = r.accounts
        /\ last' = [op |-> "SubBalance", err |-> r.err]
        /\ lowBal' = MinBalance(r.accounts)
        /\ UNCHANGED <<snapshots, mark, ledger>>
        /\ ChainUnchanged

CallIncrementNonce(addr) ==
    LET r == StateIncrementNonce(accounts, addr)
    IN  /\ addr = "A"
        /\ GetNonce(accounts, addr) + 1 \in StateNonces
        /\ accounts' = r.accounts
        /\ last' = [op |-> "IncrementNonce", err |-> r.err]
        /\ lowBal' = MinBalance(r.accounts)
        /\ UNCHANGED <<snapshots, mark, ledger>>
        /\ ChainUnchanged

CallCreateAccount(addr) ==
    /\ accounts' = CreateAccount(accounts, addr)
    /\ last' = [op |-> "CreateAccount", err |-> NoError]
    /\ lowBal' = MinBalance(accounts')
    /\ UNCHANGED <<snapshots, mark, ledger>>
    /\ ChainUnchanged

\* Bookkeeping of Snapshot(): the handle is now issued, and it is followed
\* as the outer handle when no other handle is being followed.
LedgerSnapshot(id) ==
    [ledger EXCEPT !.issued = @ \cup {id},
                   !.outer = IF @.id < 0
                             THEN [id |-> id, accounts |-> accounts, nested |-> FALSE]
                             ELSE @]

\* Bookkeeping of RevertToSnapshot(id) and CommitSnapshot(id) on a live
\* handle: the handle is consumed; the outer handle is resolved by a call on
\* it or on an older one, and has seen an inner snapshot resolved otherwise.
LedgerResolve(id) ==
    IF id < 0 \/ id >= Len(snapshots) THEN ledger
    ELSE [ledger EXCEPT !.consumed = @ \cup {id},
                        !.outer = IF @.id < 0 THEN @
                                  ELSE IF id <= @.id THEN NoOuter
                                  ELSE [@ EXCEPT !.nested = TRUE]]

\* What the caller knows about the handle it passes.
HandleFacts(id) ==
    [outer |-> (ledger.outer.id >= 0 /\ id = ledger.outer.id),
     nested |-> ledger.outer.nested,
     inner |-> (ledger.outer.id >= 0 /\ id > ledger.outer.id /\ id < Len(snapshots)),
     stale |-> (id \notin ledger.issued \/ id \in ledger.consumed)]

CallSnapshot ==
    LET r == StateSnapshot(StateDB)
    IN  /\ Len(snapshots) < MaxSnapshots
        /\ accounts' = r.st.accounts
        /\ snapshots' = r.st.snapshots
        /\ mark' = [id |-> r.id, accounts |-> accounts]
        /\ ledger' = LedgerSnapshot(r.id)
        /\ last' = [op |-> "Snapshot", err |-> NoError]
        /\ lowBal' = MinBalance(accounts')
        /\ ChainUnchanged

CallRevertToSnapshot(id) ==
    LET r == StateRevertToSnapshot(StateDB, id)
    IN  /\ accounts' = r.accounts
        /\ snapshots' = r.snapshots
        /\ mark' = NoMark
        /\ ledger' = LedgerResolve(id)
        /\ last' = [op |-> "RevertToSnapshot", err |-> NoError,
                    marked |-> (mark.id >= 0 /\ mark.id = id), changed |-> (r.accounts # accounts),
                    handle |-> HandleFacts(id)]
        /\ lowBal' = MinBalance(accounts')
        /\ ChainUnchanged

CallCommitSnapshot(id) ==
    LET r == StateCommitSnapshot(StateDB, id)
    IN  /\ accounts' = r.accounts
        /\ snapshots' = r.snapshots
        /\ mark' = NoMark
        /\ ledger' = LedgerResolve(id)
        /\ last' = [op |-> "CommitSnapshot", err |-> NoError, handle |-> HandleFacts(id)]
        /\ lowBal' = MinBalance(accounts')
        /\ ChainUnchanged

NextState ==
    \/ \E addr \in StateAddresses, amount \in Amounts : CallAddBalance(addr, amount)
    \/ \E addr \in StateAddresses, amount \in Amounts : CallSubBalance(addr, amount)
    \/ \E addr \in StateAddresses : CallIncrementNonce(addr)
    \/ \E addr \in StateAddresses : CallCreateAccount(addr)
    \/ CallSnapshot
    \/ \E id \in Handles : CallRevertToSnapshot(id)
    \/ \E id \in Handles : CallCommitSnapshot(id)

SpecState == InitState /\ [][NextState]_vars

(***************************************************************************)
(* The Executor taken alone: Mint, SetCurrentHeader and ExecuteTx called   *)
(* directly, as the producer's dry run does.                               *)
(***************************************************************************)
MaxNonce == 1
GenesisSupply == 30

\* Share settings: main.go's, and one whose shares do not divide the fee.
Configs ==
    { MainConfig,
      [MainConfig EXCEPT !.ShareTier1 = 33, !.ShareTier2 = 33, !.ShareTier3 = 33, !.SharePool = 0] }

ExecSigners == {"A", "B", NoSigner}
ExecRecipients == {"B"}
ExecValues == {-5, 0, 5}
ExecGasPrices == {0, 1}
ExecGasLimits == {20}
ExecNonces == 0 .. 1

ExecTxs ==
    [signer : ExecSigners, nonce : ExecNonces, to : ExecRecipients,
     value : ExecValues, gasPrice : ExecGasPrices, gasLimit : ExecGasLimits]

\* Headers: three distinct tiers, no validator, no tier at all, tiers that
\* coincide with sender, recipient and pool, one address in all three tiers.
ExecHeaders ==
    { [proposer |-> "P", validator |-> "V", witness |-> "W"],
      [proposer |-> "P", validator |-> ZeroAddress, witness |-> "W"],
      [proposer |-> ZeroAddress, validator |-> ZeroAddress, witness |-> ZeroAddress],
      [proposer |-> "A", validator |-> "B", witness |-> RewardPool],
      [proposer |-> "P", validator |-> "P", witness |-> "P"] }

\* The genesis allocation main.go mints before the chain starts.
GenesisAccounts == [a \in {"A"} |-> [balance |-> GenesisSupply, nonce |-> 0]]

InitExec ==
    /\ accounts = GenesisAccounts
    /\ snapshots = <<>>
    /\ execCurrent = NilPtr
    /\ blocks = EmptyMap
    /\ blocksByHash = EmptyMap
    /\ blocksByHeight = EmptyMap
    /\ head = NilPtr
    /\ config \in Configs
    /\ last = [op |-> "New", err |-> NoError]
    /\ lowBal = 0
    /\ mark = NoMark
    /\ ledger = NoLedger
    /\ pending = <<>>
    /\ admitted = <<>>
    /\ inflight = Idle
    /\ NodeInit

\* Executor.SetCurrentHeader / SetBlock
CallSetCurrentHeader(hdr) ==
    /\ execCurrent' = [kind |-> "header", hdr |-> hdr]
    /\ last' = [op |-> "SetCurrentHeader", err |-> NoError]
    /\ lowBal' = MinBalance(accounts)
    /\ UNCHANGED <<accounts, snapshots, mark, ledger, pending, admitted, inflight, nodeVars, blocks, blocksByHash, blocksByHeight, head, config>>

\* Executor.ExecuteTx with e.current set
CallExecuteTx(tx) ==
    /\ execCurrent # NilPtr
    /\ GetNonce(accounts, tx.signer) < MaxNonce
    /\ LET r == ExecuteTx(StateDB, config, CurrentHeader, tx)
       IN  /\ accounts' = r.st.accounts
           /\ snapshots' = r.st.snapshots
           /\ last' = [op |-> "ExecuteTx", err |-> r.err, tx |-> tx, receipt |-> r.receipt]
           /\ lowBal' = r.low
    /\ UNCHANGED <<mark, ledger, pending, admitted, inflight, nodeVars, execCurrent, blocks, blocksByHash, blocksByHeight, head, config>>

NextExec ==
    \/ \E hdr \in ExecHeaders : CallSetCurrentHeader(hdr)
    \/ \E tx \in ExecTxs : CallExecuteTx(tx)

SpecExec == InitExec /\ [][NextExec]_vars

(***************************************************************************)
(* Properties of ExecuteTx, checked under SpecExec.                        *)
(***************************************************************************)
Fee(tx) == tx.gasLimit * tx.gasPrice

TotalCost(tx) == tx.value + Fee(tx)

RECURSIVE SumBalances(_, _)
SumBalances(accts, addrs) ==
    IF addrs = {} THEN 0
    ELSE LET a == CHOOSE x \in addrs : TRUE
         IN  accts[a].balance + SumBalances(accts, addrs \ {a})

Supply(accts) == SumBalances(accts, DOMAIN accts)

\* What a tier or the pool is paid: floor(fee * share / 100), nothing for the zero address.
TierPaid(fee, share, addr) == IF IsZero(addr) THEN 0 ELSE (fee * share) \div 100

Gain(cond, amount) == IF cond /\ amount > 0 THEN amount ELSE 0

\* The post-state the executor contract describes for a successful transfer.
ExpectedPost(accts, cfg, hdr, tx) ==
    LET fee == Fee(tx)
        t1 == TierPaid(fee, cfg.ShareTier1, hdr.proposer)
        t2 == TierPaid(fee, cfg.ShareTier2, hdr.validator)
        t3 == TierPaid(fee, cfg.ShareTier3, hdr.witness)
        pool == (fee * cfg.SharePool) \div 100
        touched == {tx.signer}
                   \cup (IF tx.value > 0 THEN {tx.to} ELSE {})
                   \cup (IF t1 > 0 THEN {hdr.proposer} ELSE {})
                   \cup (IF t2 > 0 THEN {hdr.validator} ELSE {})
                   \cup (IF t3 > 0 THEN {hdr.witness} ELSE {})
                   \cup (IF pool > 0 THEN {cfg.RewardPool} ELSE {})
    IN  [a \in DOMAIN accts \cup touched |->
            [balance |-> GetBalance(accts, a)
                         - (IF a = tx.signer THEN TotalCost(tx) ELSE 0)
                         + Gain(a = tx.to, tx.value)
                         + Gain(a = hdr.proposer, t1)
                         + Gain(a = hdr.validator, t2)
                         + Gain(a = hdr.witness, t3)
                         + Gain(a = cfg.RewardPool, pool),
             nonce |-> GetNonce(accts, a) + (IF a = tx.signer THEN 1 ELSE 0)]]

ExecuteTxFailed == last'.op = "ExecuteTx" /\ last'.err # NoError

ExecuteTxSucceeded == last'.op = "ExecuteTx" /\ last'.err = NoError

\* C4: when ExecuteTx returns an error, the account map (the set of accounts,
\* every balance and every nonce) is what it was before the call.
C4_ExecuteTxAtomic == [][ExecuteTxFailed => accounts' = accounts]_vars

\* An insufficient-funds failure of a sender that has no account: SubBalance
\* created the account and the revert removed it again.
C4_Witness ==
    /\ last.op = "ExecuteTx"
    /\ last.err = "insufficient balance"
    /\ last.tx.signer \notin DOMAIN accounts

\* C5: ExecuteTx fails with an invalid-nonce error, and leaves the state
\* unchanged, whenever tx.nonce differs from the sender's state nonce.
C5_StrictNonce ==
    [][(last'.op = "ExecuteTx" /\ last'.tx.signer # NoSigner
        /\ last'.tx.nonce # GetNonce(accounts, last'.tx.signer))
       => (last'.err = "invalid nonce" /\ accounts' = accounts)]_vars

\* C6: a successful ExecuteTx debits the sender by value + fee and bumps its
\* nonce, credits the recipient with a positive value, pays each tier with a
\* non-zero address and the pool their floor(fee * share / 100) when positive,
\* creates no account for the zero address, changes nothing else, and
\* returns a receipt with success = true and gasUsed = gasLimit.
C6_ExecuteTxPostState ==
    [][ExecuteTxSucceeded =>
        /\ accounts' = ExpectedPost(accounts, config, CurrentHeader, last'.tx)
        /\ ZeroAddress \notin DOMAIN accounts'
        /\ last'.receipt.success
        /\ last'.receipt.gasUsed = last'.tx.gasLimit]_vars

\* Scenario 2: a paid transfer under a header without validator, main.go shares.
C6_Witness ==
    /\ last.op = "ExecuteTx" /\ last.err = NoError
    /\ config = MainConfig
    /\ last.tx.value > 0 /\ Fee(last.tx) > 0
    /\ CurrentHeader.validator = ZeroAddress
    /\ CurrentHeader.proposer # ZeroAddress
    /\ GetBalance(accounts, CurrentHeader.proposer) > 0

ShareSum(cfg) == cfg.ShareTier1 + cfg.ShareTier2 + cfg.ShareTier3 + cfg.SharePool

C8_BalancesNonNegative ==
    [][/\ lowBal' >= 0
       /\ \A a \in DOMAIN accounts' : accounts'[a].balance >= 0
       /\ (last'.op = "ExecuteTx" /\ last'.tx.signer # NoSigner
           /\ TotalCost(last'.tx) > GetBalance(accounts, last'.tx.signer))
          => (/\ last'.err = "insufficient balance"
              /\ GetBalance(accounts', last'.tx.signer) = GetBalance(accounts, last'.tx.signer))]_vars

\* A debit refused for lack of funds on an account that holds something.
C8_Witness ==
    /\ last.op = "ExecuteTx" /\ last.err = "insufficient balance"
    /\ GetBalance(accounts, last.tx.signer) > 0

(***************************************************************************)
(* Properties of the state store, checked under SpecState.                 *)
(***************************************************************************)
\* C10: RevertToSnapshot(id), called with the handle of the last Snapshot()
\* after any sequence of CreateAccount, AddBalance, SubBalance and
\* IncrementNonce calls, makes the account map equal to the map at the
\* moment of that Snapshot().
C10_RevertRestoresSnapshot ==
    [][(last'.op = "RevertToSnapshot" /\ last'.marked) => accounts' = mark.accounts]_vars

\* A revert to the marked snapshot that undid something.
C10_Witness == last.op = "RevertToSnapshot" /\ last.marked /\ last.changed

\* The call just made resolved (reverted or committed) a live handle.
ResolvedHandle == last'.op \in {"RevertToSnapshot", "CommitSnapshot"}

\* C11: with an outer snapshot taken before an inner one, committing or
\* reverting the inner handle leaves the outer snapshot on the stack with
\* the map it captured, and a later RevertToSnapshot(outer) installs exactly
\* the account map of the moment the outer snapshot was taken.
C11_NestedSnapshots ==
    [][/\ (ResolvedHandle /\ last'.handle.inner) =>
            /\ Len(snapshots') > ledger.outer.id
            /\ snapshots'[ledger.outer.id + 1] = ledger.outer.accounts
       /\ (last'.op = "RevertToSnapshot" /\ last'.handle.outer) =>
            accounts' = ledger.outer.accounts]_vars

\* A revert to the outer handle, after an inner snapshot was resolved, that
\* undid something.
C11_Witness ==
    /\ last.op = "RevertToSnapshot"
    /\ last.handle.outer /\ last.handle.nested /\ last.changed

\* C12: RevertToSnapshot with a handle that Snapshot() never returned, or
\* that was already reverted or committed, leaves the account map as it is,
\* whatever snapshots were taken since.
C12_StaleHandleIgnored ==
    [][(last'.op = "RevertToSnapshot" /\ last'.handle.stale) => accounts' = accounts]_vars

\* C29: CommitSnapshot(id) on a live handle leaves the account map as it is
\* and discards that handle only: every other live handle, older or newer
\* than id, still reverts to the map captured when it was taken.
C29_CommitDiscardsOneHandle ==
    [][\A id \in 0 .. Len(snapshots) - 1 :
          CallCommitSnapshot(id) =>
            /\ accounts' = accounts
            /\ \A other \in (0 .. Len(snapshots) - 1) \ {id} :
                  StateRevertToSnapshot([accounts |-> accounts', snapshots |-> snapshots'],
                                        other).accounts = snapshots[other + 1]]_vars

(***************************************************************************)
(* Blocks and the chain.  A digest is modelled by what it digests.  A      *)
(* header is [parentHash, height, timestamp, stateRoot, txRoot, gasLimit,  *)
(* gasUsed, proposer, validator, witness]; a block is [header, txs, hash]  *)
(* with hash the cached digest, ZeroHash until Hash() is first called.     *)
(* Committed Block objects live in blocks, keyed by their cached hash; the *)
(* indexes and head hold references into it.                               *)
(***************************************************************************)
ZeroHash == [zero |-> TRUE]

\* StateDB.StateRoot: the digest of the account digests in the order the
\* range over the Go map yields them, which the language leaves open.
RECURSIVE Orderings(_)
Orderings(S) ==
    IF S = {} THEN {<<>>}
    ELSE UNION {{<<a>> \o rest : rest \in Orderings(S \ {a})} : a \in S}

RootInOrder(accts, order) == [i \in 1 .. Len(order) |-> AccountHash(order[i], accts[order[i]])]

StateRootOutcomes(accts) == {RootInOrder(accts, order) : order \in Orderings(DOMAIN accts)}

\* BlockHeader.HashHeader
HashHeader(h) ==
    [parentHash |-> h.parentHash, height |-> h.height, timestamp |-> h.timestamp,
     stateRoot |-> h.stateRoot, txRoot |-> h.txRoot, gasLimit |-> h.gasLimit,
     proposer |-> h.proposer, validator |-> h.validator, witness |-> h.witness]

\* Block.Hash: the cached digest once there is one
BlockHash(b) == IF b.hash # ZeroHash THEN b.hash ELSE HashHeader(b.header)

\* Transaction.Hash
TxHash(tx) == [tx |-> tx]

RECURSIVE buildTxMerkleRoot(_)
buildTxMerkleRoot(nodes) ==
    IF Len(nodes) = 1 THEN nodes[1]
    ELSE LET current == IF Len(nodes) % 2 # 0 THEN Append(nodes, nodes[Len(nodes)]) ELSE nodes
             next == [i \in 1 .. (Len(current) \div 2) |->
                         [left |-> current[2 * i - 1], right |-> current[2 * i]]]
         IN  buildTxMerkleRoot(next)

CalculateTxRoot(txs) ==
    IF Len(txs) = 0 THEN ZeroHash
    ELSE buildTxMerkleRoot([i \in 1 .. Len(txs) |-> TxHash(txs[i])])

\* Block.ValidateBasic
BlockValidateBasic(b) ==
    LET h == b.header
    IN  IF h.gasLimit = 0 THEN "gasLimit must be > 0"
        ELSE IF h.gasUsed > h.gasLimit THEN "gasUsed greater than gasLimit"
        ELSE IF h.timestamp <= 0 THEN "invalid timestamp"
        ELSE IF CalculateTxRoot(b.txs) # h.txRoot THEN "tx root mismatch"
        ELSE NoError

\* Executor.SetCoinbase: writes through e.current, whatever it points to.
SetCoinbase(cur, heap, addr) ==
    IF cur.kind = "block"
    THEN [execCurrent |-> cur, blocks |-> [heap EXCEPT ![cur.ref].header.proposer = addr]]
    ELSE IF cur.kind = "header"
    THEN [execCurrent |-> [cur EXCEPT !.hdr.proposer = addr], blocks |-> heap]
    ELSE [execCurrent |-> cur, blocks |-> heap]

\* The one element of a singleton: binds a result that is used several times.
TheOnly(S) == CHOOSE x \in S : TRUE

\* The loop of Executor.ExecuteBlock from transaction i on; receipts holds
\* the receipts of the transactions from i on that ran (receipts[:i] on a
\* failure, all of them otherwise).
RECURSIVE ExecuteFrom(_, _, _, _, _)
ExecuteFrom(st, cfg, b, i, low) ==
    IF i > Len(b.txs) THEN [err |-> NoError, st |-> st, low |-> low, receipts |-> <<>>]
    ELSE TheOnly({ IF r.err # NoError
                   THEN [err |-> r.err, st |-> r.st, low |-> Min({low, r.low}), receipts |-> <<>>]
                   ELSE TheOnly({ [rest EXCEPT !.receipts = <<r.receipt>> \o @]
                                  : rest \in {ExecuteFrom(r.st, cfg, b, i + 1, Min({low, r.low}))} })
                   : r \in {ExecuteTx(st, cfg, b.header, b.txs[i])} })

\* Mutant: a failed block leaves the StateDB as it was before the block.
MutExecuteBlockAtomic(st, cfg, b) ==
    TheOnly({ IF r.err # NoError THEN [r EXCEPT !.st = st] ELSE r
              : r \in {ExecuteFrom(st, cfg, b, 1, MinBalance(st.accounts))} })

\* Executor.ExecuteBlock (e.current becomes b.Header: see AddBlock)
ExecuteBlock(st, cfg, b) == ExecuteFrom(st, cfg, b, 1, MinBalance(st.accounts))

Put(f, k, v) == [x \in DOMAIN f \cup {k} |-> IF x = k THEN v ELSE f[x]]

BlockRef(h) == [kind |-> "block", ref |-> h]

\* Blockchain.commitBlock
commitBlock(heap, byHash, byHeight, b) ==
    LET h == BlockHash(b)
    IN  [blocks |-> Put(heap, h, [b EXCEPT !.hash = h]),
         blocksByHash |-> Put(byHash, h, BlockRef(h)),
         blocksByHeight |-> Put(byHeight, b.header.height, BlockRef(h)),
         head |-> BlockRef(h)]

\* e.current pointing to the header of a block that no index holds: the
\* executor reads and writes its tier addresses only.
LooseHeader(h) ==
    [kind |-> "header",
     hdr |-> [proposer |-> h.proposer, validator |-> h.validator, witness |-> h.witness]]

\* Mutant: any height is taken for a block whose parent is known.
MutAnyHeight(height, parentHeight) == TRUE

\* The height continuity test of AddBlock.
HeightContinues(height, parentHeight) == height = parentHeight + 1

\* Blockchain.AddBlock on the current chain; finalRoot is what this call's
\* StateRoot() returns.  The result holds the error and every field after
\* the call, and the lowest balance any intermediate state held.
AddBlockOn(st0, cur, b, finalRoot) ==
    LET vb == BlockValidateBasic(b)
        blockSnap == StateSnapshot(st0)
        cb == SetCoinbase(cur, blocks, b.header.proposer)
        loose == LooseHeader(b.header)
        rejected(e, st, ptr, heap, low) ==
            [err |-> e, st |-> st, execCurrent |-> ptr, blocks |-> heap,
             blocksByHash |-> blocksByHash, blocksByHeight |-> blocksByHeight,
             head |-> head, low |-> low]
        committed(st, heap, low) ==
            LET c == commitBlock(heap, blocksByHash, blocksByHeight, b)
            IN  [err |-> NoError, st |-> StateCommitSnapshot(st, blockSnap.id),
                 execCurrent |-> IF Len(b.txs) > 0 \/ b.header.height # 0
                                 THEN BlockRef(BlockHash(b))
                                 ELSE cb.execCurrent,
                 blocks |-> c.blocks, blocksByHash |-> c.blocksByHash,
                 blocksByHeight |-> c.blocksByHeight, head |-> c.head, low |-> low]
        revert(st) == StateRevertToSnapshot(st, blockSnap.id)
        low0 == MinBalance(st0.accounts)
        executeAndCommit(mismatch) ==
            TheOnly({ IF ex.err # NoError
                      THEN rejected(ex.err, revert(ex.st), loose, cb.blocks, ex.low)
                      ELSE IF finalRoot # b.header.stateRoot
                      THEN rejected(mismatch, revert(ex.st), loose, cb.blocks, ex.low)
                      ELSE committed(ex.st, cb.blocks, ex.low)
                      : ex \in {ExecuteBlock(blockSnap.st, config, b)} })
    IN  IF vb # NoError
        THEN rejected(vb, st0, cur, blocks, low0)
        ELSE IF b.header.height = 0
        THEN IF head # NilPtr
             THEN rejected("genesis already exists", revert(blockSnap.st), cur, blocks, low0)
             ELSE IF Len(b.txs) > 0
             THEN executeAndCommit("genesis state mismatch")
             ELSE IF finalRoot # b.header.stateRoot
             THEN rejected("genesis state mismatch", revert(blockSnap.st),
                           cb.execCurrent, cb.blocks, low0)
             ELSE committed(blockSnap.st, cb.blocks, low0)
        ELSE IF b.header.parentHash \notin DOMAIN blocksByHash
        THEN rejected("unknown parent block", revert(blockSnap.st), cur, blocks, low0)
        ELSE IF ~HeightContinues(b.header.height,
                                 blocks[blocksByHash[b.header.parentHash].ref].header.height)
        THEN rejected("invalid height", revert(blockSnap.st), cur, blocks, low0)
        ELSE executeAndCommit("state root mismatch")

\* AddBlock as the chain's callers reach it, on the node's own StateDB and
\* with whatever header the executor was last given.
AddBlock(b, finalRoot) == AddBlockOn(StateDB, execCurrent, b, finalRoot)

\* The account map AddBlock computes the root of, when it gets that far.
ExecutedAccountsOn(st0, b) ==
    IF Len(b.txs) > 0 \/ b.header.height # 0
    THEN ExecuteBlock(StateSnapshot(st0).st, config, b).st.accounts
    ELSE st0.accounts

ExecutedAccounts(b) == ExecutedAccountsOn(StateDB, b)

(***************************************************************************)
(* The chain's specification: blocks arrive at AddBlock from the local     *)
(* producer and from peers, transactions are executed directly as the      *)
(* producer's dry run does.                                                *)
(***************************************************************************)
MaxBlocks == 3
MaxHeight == 2
BlockGasLimit == 30000000

TxPay == [signer |-> "A", nonce |-> 0, to |-> "B", value |-> 5, gasPrice |-> 0, gasLimit |-> 20]
TxFee == [signer |-> "A", nonce |-> 0, to |-> "B", value |-> 0, gasPrice |-> 1, gasLimit |-> 20]
TxBroke == [signer |-> "B", nonce |-> 0, to |-> "A", value |-> 50, gasPrice |-> 0, gasLimit |-> 20]
TxForged == [signer |-> NoSigner, nonce |-> 0, to |-> "B", value |-> 5, gasPrice |-> 0, gasLimit |-> 20]

ChainTxs == {TxFee, TxForged}
\* What producers seal: a body and the proposer it is sealed for.
Sealings == {<<<<>>, "B">>, <<<<TxPay>>, "B">>, <<<<TxPay, TxBroke>>, "B">>, <<<<TxForged>>, "B">>}
UnknownHash == [unknown |-> TRUE]
\* A root that is the digest of no reachable account map.
BadRoot == <<AccountHash(ZeroAddress, NewAccount)>>

\* The order a producer that lists accounts by address would hash them in.
AddressOrder == <<"A", "B", "P", "R", "V", "W">>

SortedRoot(accts) ==
    RootInOrder(accts, SelectSeq(AddressOrder, LAMBDA a : a \in DOMAIN accts))

NewBlock(h, txs) == [header |-> h, txs |-> txs, hash |-> ZeroHash]

\* A well-formed block over the given parent, height, body and proposer,
\* with the given state root.
Sealed(parent, height, body, proposer, root) ==
    NewBlock([parentHash |-> parent, height |-> height, timestamp |-> 1,
              stateRoot |-> root, txRoot |-> CalculateTxRoot(body),
              gasLimit |-> BlockGasLimit, gasUsed |-> 0,
              proposer |-> proposer, validator |-> ZeroAddress, witness |-> ZeroAddress],
             body)

\* The same with the root a producer computes by running the body first.
Produced(parent, height, body, proposer) ==
    LET b == Sealed(parent, height, body, proposer, BadRoot)
    IN  Sealed(parent, height, body, proposer, SortedRoot(ExecutedAccounts(b)))

\* Blocks ValidateBasic refuses.
Malformed ==
    LET b == Sealed(ZeroHash, 0, <<TxPay>>, "B", BadRoot)
    IN  { [b EXCEPT !.header.gasLimit = 0],
          [b EXCEPT !.header.gasUsed = BlockGasLimit + 1],
          [b EXCEPT !.header.timestamp = 0],
          [b EXCEPT !.header.txRoot = ZeroHash] }

ParentHeight(p) == blocks[blocksByHash[p].ref].header.height

\* What reaches AddBlock: a genesis block, a child of any indexed block, each
\* with the producer's root and with a wrong one; a block at the wrong
\* height, a block of an unknown parent, and the malformed ones.
Candidates ==
    LET known == DOMAIN blocksByHash
        shapes == {<<ZeroHash, 0>>}
                  \cup {<<p, ParentHeight(p) + 1>> : p \in {q \in known : ParentHeight(q) < MaxHeight}}
    IN  {Produced(x[1][1], x[1][2], x[2][1], x[2][2]) : x \in shapes \X Sealings}
        \cup {Sealed(x[1], x[2], <<TxPay>>, "B", BadRoot) : x \in shapes}
        \cup {Produced(p, ParentHeight(p) + 2, <<>>, "B") : p \in known}
        \cup {Produced(UnknownHash, 1, <<>>, "B")}
        \cup Malformed

Init ==
    /\ accounts = GenesisAccounts
    /\ snapshots = <<>>
    /\ execCurrent = NilPtr
    /\ blocks = EmptyMap
    /\ blocksByHash = EmptyMap
    /\ blocksByHeight = EmptyMap
    /\ head = NilPtr
    /\ config = MainConfig
    /\ last = [op |-> "New", err |-> NoError]
    /\ lowBal = 0
    /\ mark = NoMark
    /\ ledger = NoLedger
    /\ pending = <<>>
    /\ admitted = <<>>
    /\ inflight = Idle
    /\ NodeInit

\* Blockchain.AddBlock, while the block store holds at most limit blocks.
CallAddBlockWithin(b, limit) ==
    \E finalRoot \in StateRootOutcomes(ExecutedAccounts(b)) :
        \E r \in {AddBlock(b, finalRoot)} :
            /\ Cardinality(DOMAIN r.blocks) <= limit
            /\ accounts' = r.st.accounts
            /\ snapshots' = r.st.snapshots
            /\ execCurrent' = r.execCurrent
            /\ blocks' = r.blocks
            /\ blocksByHash' = r.blocksByHash
            /\ blocksByHeight' = r.blocksByHeight
            /\ head' = r.head
            /\ last' = [op |-> "AddBlock", err |-> r.err]
            /\ lowBal' = r.low
            /\ UNCHANGED <<config, mark, ledger, pending, admitted, inflight, nodeVars>>

CallAddBlock(b) == CallAddBlockWithin(b, MaxBlocks)

Next ==
    \/ \E b \in Candidates : CallAddBlock(b)
    \/ \E tx \in ChainTxs : CallExecuteTx(tx)

Spec == Init /\ [][Next]_vars

(***************************************************************************)
(* Blocks as any peer may send them: well linked, with the right roots,    *)
(* but sealed for no proposer or carrying a transaction that               *)
(* Transaction.ValidateBasic refuses.                                      *)
(***************************************************************************)
TxNoGas == [signer |-> "A", nonce |-> 0, to |-> "B", value |-> 5, gasPrice |-> 0, gasLimit |-> 0]

PeerCandidates ==
    LET known == DOMAIN blocksByHash
        children == {<<p, ParentHeight(p) + 1>> : p \in {q \in known : ParentHeight(q) < MaxHeight}}
    IN  {Produced(ZeroHash, 0, body, "B") : body \in {<<>>, <<TxNoGas>>}}
        \cup {Produced(x[1][1], x[1][2], x[2], ZeroAddress) :
                 x \in children \X {<<>>, <<TxPay>>, <<TxNoGas>>}}
        \cup Malformed

NextPeer == \E b \in PeerCandidates : CallAddBlock(b)

SpecPeer == Init /\ [][NextPeer]_vars

\* C22: every indexed block has the transaction root of its own body, a
\* non-zero proposer above height 0, and only transactions that pass
\* Transaction.ValidateBasic.
C22_IndexedBlocksWellFormed ==
    \A h \in DOMAIN blocksByHash :
        LET b == blocks[blocksByHash[h].ref]
        IN  /\ b.header.txRoot = CalculateTxRoot(b.txs)
            /\ b.header.height > 0 => ~IsZero(b.header.proposer)
            /\ \A i \in 1 .. Len(b.txs) : TxValidateBasic(b.txs[i]) = NoError

\* The number of positions of seq that hold x.
Occurrences(seq, x) == Cardinality({i \in 1 .. Len(seq) : seq[i] = x})

RECURSIVE SumOver(_, _)
\* The sum of count[k] over the keys k of the set.
SumOver(count, keys) ==
    IF keys = {} THEN 0
    ELSE LET k == CHOOSE x \in keys : TRUE IN count[k] + SumOver(count, keys \ {k})

\* How often the committed blocks list the transaction, all of them taken
\* together: AddBlock ran ExecuteTx once for each listing.
TimesApplied(tx) ==
    SumOver([h \in DOMAIN blocks |-> Occurrences(blocks[h].txs, tx)], DOMAIN blocks)

\* C34: no transaction id is applied more than once across the blocks
\* AddBlock committed.
C34_NoTxAppliedTwice ==
    \A h \in DOMAIN blocks : \A i \in 1 .. Len(blocks[h].txs) :
        TimesApplied(blocks[h].txs[i]) <= 1

\* C36: a committed block's header is never rewritten: the hash stored
\* with every indexed block is the hash of the header it holds now.
C36_CommittedHeadersFrozen ==
    \A h \in DOMAIN blocksByHash :
        /\ blocks[blocksByHash[h].ref].hash = h
        /\ HashHeader(blocks[blocksByHash[h].ref].header) = h

(***************************************************************************)
(* Executor.ExecuteBlock called on its own, without the snapshot that      *)
(* AddBlock wraps around it.                                               *)
(***************************************************************************)
MaxBlockNonce == 2

TxBack == [signer |-> "B", nonce |-> 0, to |-> "A", value |-> 5, gasPrice |-> 0, gasLimit |-> 20]
TxUnsigned == [signer |-> NoSigner, nonce |-> 0, to |-> "B", value |-> 5, gasPrice |-> 0, gasLimit |-> 20]

BlockTxs == {TxPay, TxFee, TxBack, TxUnsigned}

BlockBodies ==
    {<<>>} \cup {<<x>> : x \in BlockTxs} \cup {<<x, y>> : x, y \in BlockTxs}
           \cup {<<x, y, z>> : x, y, z \in BlockTxs}

BlockHeaders ==
    { [proposer |-> "P", validator |-> "V", witness |-> "W"],
      [proposer |-> "P", validator |-> ZeroAddress, witness |-> ZeroAddress] }

\* A block as ExecuteBlock reads it: header tiers and body.
Executable(hdr, body) == [header |-> hdr, txs |-> body]

\* Executor.ExecuteBlock
CallExecuteBlock(b) ==
    \E r \in {ExecuteBlock(StateDB, config, b)} :
        /\ \A a \in DOMAIN r.st.accounts : r.st.accounts[a].nonce <= MaxBlockNonce
        /\ accounts' = r.st.accounts
        /\ snapshots' = r.st.snapshots
        /\ execCurrent' = [kind |-> "header", hdr |-> b.header]
        /\ last' = [op |-> "ExecuteBlock", err |-> r.err, block |-> b, receipts |-> r.receipts]
        /\ lowBal' = r.low
        /\ UNCHANGED <<mark, ledger, pending, admitted, inflight, nodeVars, blocks, blocksByHash, blocksByHeight, head, config>>

NextBlock == \E hdr \in BlockHeaders, body \in BlockBodies : CallExecuteBlock(Executable(hdr, body))

SpecBlock == InitExec /\ [][NextBlock]_vars

\* The StateDB after the first k transactions of txs have run in list order,
\* each through ExecuteTx on the result of the one before.
RECURSIVE AfterPrefix(_, _, _, _, _)
AfterPrefix(st, cfg, hdr, txs, k) ==
    IF k = 0 THEN st ELSE ExecuteTx(AfterPrefix(st, cfg, hdr, txs, k - 1), cfg, hdr, txs[k]).st

\* The result of running transaction k of txs after the k - 1 before it.
ResultAt(st, cfg, hdr, txs, k) ==
    ExecuteTx(AfterPrefix(st, cfg, hdr, txs, k - 1), cfg, hdr, txs[k])

\* C25: ExecuteBlock runs the transactions in list order and stops at the
\* first failing one, number k + 1: it returns the receipts of the k before
\* it with that transaction's error, and the state afterwards is the state
\* after exactly those k transactions (no block-level rollback, nothing of
\* the failing or any later transaction); without a failure all run.
C25_ExecuteBlockStopsAtFirstFailure ==
    [][last'.op = "ExecuteBlock" =>
         LET b == last'.block
             k == Len(last'.receipts)
         IN  /\ k <= Len(b.txs)
             /\ \A i \in 1 .. k :
                   /\ ResultAt(StateDB, config, b.header, b.txs, i).err = NoError
                   /\ last'.receipts[i] = ResultAt(StateDB, config, b.header, b.txs, i).receipt
             /\ accounts' = AfterPrefix(StateDB, config, b.header, b.txs, k).accounts
             /\ snapshots' = snapshots
             /\ IF last'.err = NoError THEN k = Len(b.txs)
                ELSE /\ k < Len(b.txs)
                     /\ ResultAt(StateDB, config, b.header, b.txs, k + 1).err = last'.err]_vars

\* A block failed at its third transaction and the two before it stay applied.
C25_Witness ==
    /\ last.op = "ExecuteBlock"
    /\ last.err # NoError
    /\ Len(last.receipts) = 2
    /\ Len(last.block.txs) = 3
    /\ GetNonce(accounts, "A") + GetNonce(accounts, "B") >= 2

(***************************************************************************)
(* The supply under every way the executor is reached: ExecuteTx on its    *)
(* own, ExecuteBlock on its own and AddBlock, with tier addresses that     *)
(* coincide with sender, recipient and reward pool.                        *)
(***************************************************************************)
TxSelf == [signer |-> "A", nonce |-> 0, to |-> "A", value |-> 5, gasPrice |-> 1, gasLimit |-> 20]
TxToPool == [signer |-> "A", nonce |-> 0, to |-> RewardPool, value |-> 5, gasPrice |-> 1, gasLimit |-> 20]

SupplyTxs == {TxFee, TxSelf, TxToPool}

SupplyHeaders ==
    { [proposer |-> "A", validator |-> "B", witness |-> RewardPool],
      [proposer |-> "P", validator |-> "P", witness |-> "P"],
      [proposer |-> "B", validator |-> ZeroAddress, witness |-> "A"] }

SupplyBodies == {<<x>> : x \in SupplyTxs} \cup {<<TxToPool, x>> : x \in SupplyTxs}

\* Blocks for AddBlock sealed for the sender, the recipient and the pool.
SupplyCandidates ==
    LET known == DOMAIN blocksByHash
        shapes == {<<ZeroHash, 0>>}
                  \cup {<<p, ParentHeight(p) + 1>> : p \in {q \in known : ParentHeight(q) < MaxHeight}}
    IN  {Produced(x[1][1], x[1][2], <<x[2]>>, x[3]) :
            x \in shapes \X {TxFee} \X {"A", RewardPool}}

NextSupply ==
    \/ \E hdr \in SupplyHeaders : CallSetCurrentHeader(hdr)
    \/ \E tx \in SupplyTxs : CallExecuteTx(tx)
    \/ \E hdr \in SupplyHeaders, body \in SupplyBodies : CallExecuteBlock(Executable(hdr, body))
    \/ \E b \in SupplyCandidates : CallAddBlock(b)

SpecSupply == InitExec /\ [][NextSupply]_vars

EntryError(b) ==
    IF BlockValidateBasic(b) # NoError THEN BlockValidateBasic(b)
    ELSE IF b.header.height = 0
    THEN IF head # NilPtr THEN "genesis already exists" ELSE NoError
    ELSE IF b.header.parentHash \notin DOMAIN blocksByHash THEN "unknown parent block"
    ELSE IF ~HeightContinues(b.header.height,
                             blocks[blocksByHash[b.header.parentHash].ref].header.height)
    THEN "invalid height"
    ELSE NoError

\* The account map after every transaction of b, or the map on entry when
\* one of them fails.
WholeBlock(b) ==
    TheOnly({ IF ex.err = NoError THEN ex.st.accounts ELSE accounts
              : ex \in {ExecuteBlock(StateSnapshot(StateDB).st, config, b)} })

\* AddBlock from its entry to the first ExecuteTx: ValidateBasic, Lock,
\* Snapshot, the link checks, SetCoinbase, e.current = b.Header.
AddBlockEnter(b) ==
    /\ inflight = Idle
    /\ \E e \in {EntryError(b)} :
         \E cb \in {SetCoinbase(execCurrent, blocks, b.header.proposer)} :
           IF e # NoError
           THEN /\ last' = [op |-> "AddBlock", err |-> e]
                /\ UNCHANGED <<accounts, snapshots, execCurrent, blocks, inflight>>
           ELSE /\ snapshots' = StateSnapshot(StateDB).st.snapshots
                /\ execCurrent' = IF Len(b.txs) > 0 \/ b.header.height # 0
                                  THEN LooseHeader(b.header)
                                  ELSE cb.execCurrent
                /\ blocks' = cb.blocks
                /\ inflight' = [pc |-> "execute", block |-> b, i |-> 1,
                                blockSnap |-> StateSnapshot(StateDB).id,
                                pre |-> accounts, whole |-> WholeBlock(b), err |-> NoError]
                /\ UNCHANGED <<accounts, last>>
    /\ lowBal' = MinBalance(accounts)
    /\ UNCHANGED <<blocksByHash, blocksByHeight, head, config, mark, ledger, pending, admitted, nodeVars>>

\* One turn of the loop of ExecuteBlock.
AddBlockExecuteTx ==
    /\ inflight.pc = "execute"
    /\ inflight.i <= Len(inflight.block.txs)
    /\ \E r \in {ExecuteTx(StateDB, config, inflight.block.header, inflight.block.txs[inflight.i])} :
         /\ accounts' = r.st.accounts
         /\ snapshots' = r.st.snapshots
         /\ lowBal' = r.low
         /\ inflight' = IF r.err = NoError
                         THEN [inflight EXCEPT !.i = @ + 1]
                         ELSE [inflight EXCEPT !.pc = "reject", !.err = r.err]
    /\ UNCHANGED <<execCurrent, blocks, blocksByHash, blocksByHeight, head, config, last,
                   mark, ledger, pending, admitted, nodeVars>>

\* After the loop: StateRoot, the comparison with the header, and on
\* success CommitSnapshot and commitBlock.
AddBlockVerify ==
    /\ inflight.pc = "execute"
    /\ inflight.i > Len(inflight.block.txs)
    /\ \E finalRoot \in StateRootOutcomes(accounts) :
         IF finalRoot # inflight.block.header.stateRoot
         THEN /\ inflight' = [inflight EXCEPT
                                 !.pc = "reject",
                                 !.err = IF inflight.block.header.height = 0
                                         THEN "genesis state mismatch"
                                         ELSE "state root mismatch"]
              /\ UNCHANGED <<accounts, snapshots, execCurrent, blocks, blocksByHash,
                             blocksByHeight, head, last>>
         ELSE \E c \in {commitBlock(blocks, blocksByHash, blocksByHeight, inflight.block)} :
              /\ Cardinality(DOMAIN c.blocks) <= MaxBlocks
              /\ snapshots' = StateCommitSnapshot(StateDB, inflight.blockSnap).snapshots
              /\ execCurrent' = IF Len(inflight.block.txs) > 0 \/ inflight.block.header.height # 0
                                THEN BlockRef(BlockHash(inflight.block))
                                ELSE execCurrent
              /\ blocks' = c.blocks
              /\ blocksByHash' = c.blocksByHash
              /\ blocksByHeight' = c.blocksByHeight
              /\ head' = c.head
              /\ inflight' = Idle
              /\ last' = [op |-> "AddBlock", err |-> NoError]
              /\ UNCHANGED accounts
    /\ lowBal' = MinBalance(accounts)
    /\ UNCHANGED <<config, mark, ledger, pending, admitted, nodeVars>>

\* The error return after execution began: RevertToSnapshot(blockSnap).
AddBlockReject ==
    /\ inflight.pc = "reject"
    /\ \E r \in {StateRevertToSnapshot(StateDB, inflight.blockSnap)} :
         /\ accounts' = r.accounts
         /\ snapshots' = r.snapshots
    /\ inflight' = Idle
    /\ last' = [op |-> "AddBlock", err |-> inflight.err]
    /\ lowBal' = MinBalance(accounts')
    /\ UNCHANGED <<execCurrent, blocks, blocksByHash, blocksByHeight, head, config,
                   mark, ledger, pending, admitted, nodeVars>>

Lookup(accts, addr) == IF addr \in DOMAIN accts THEN accts[addr] ELSE NewAccount

\* A reader on another goroutine while AddBlock is between two steps:
\* GetBalance and GetNonce of one address, read from the map as it is.
ReadAccount(addr) ==
    /\ inflight # Idle
    /\ last' = [op |-> "GetAccount", err |-> NoError, addr |-> addr,
                seen |-> [balance |-> GetBalance(accounts, addr), nonce |-> GetNonce(accounts, addr)],
                pre |-> Lookup(inflight.pre, addr),
                post |-> Lookup(inflight.whole, addr)]
    /\ UNCHANGED <<accounts, snapshots, execCurrent, blocks, blocksByHash, blocksByHeight,
                   head, config, lowBal, mark, ledger, pending, admitted, inflight, nodeVars>>

Readers == {"A", "B"}

NextConc ==
    \/ \E b \in Candidates : AddBlockEnter(b)
    \/ AddBlockExecuteTx
    \/ AddBlockVerify
    \/ AddBlockReject
    \/ \E addr \in Readers : ReadAccount(addr)

SpecConc == Init /\ [][NextConc]_vars

\* C14: a reader running concurrently with one AddBlock call sees, for the
\* account it reads, either the value before the block or the value after
\* the whole block, and only the former when the block does not execute.
C14_ReadersSeeWholeBlocks ==
    last.op = "GetAccount" => last.seen \in {last.pre, last.post}

(***************************************************************************)
(* StateRoot on its own: the account map is built by the mutators, and      *)
(* StateRoot() is called on it any number of times.  Each call ranges over *)
(* the map in an order of the runtime's choosing.                          *)
(***************************************************************************)
CallStateRoot ==
    /\ \E root \in StateRootOutcomes(accounts) :
            last' = [op |-> "StateRoot", err |-> NoError, root |-> root]
    /\ lowBal' = MinBalance(accounts)
    /\ UNCHANGED <<accounts, snapshots, mark, ledger>>
    /\ ChainUnchanged

RootAddresses == {"A", "B", "P"}

NextRoot ==
    \/ \E addr \in RootAddresses, amount \in Amounts : CallAddBalance(addr, amount)
    \/ \E addr \in RootAddresses : CallIncrementNonce(addr)
    \/ \E addr \in RootAddresses : CallCreateAccount(addr)
    \/ CallStateRoot

SpecRoot == InitState /\ [][NextRoot]_vars

\* C13: StateRoot is a function of the account map alone: two calls with no
\* mutation in between return the same root, whatever order the map is
\* iterated in.
C13_StateRootDeterministic ==
    [][(last.op = "StateRoot" /\ last'.op = "StateRoot") => last'.root = last.root]_vars

(***************************************************************************)
(* Properties of the chain, checked under Spec.                            *)
(***************************************************************************)
AddBlockFailed == last'.op = "AddBlock" /\ last'.err # NoError

AddBlockSucceeded == last.op = "AddBlock" /\ last.err = NoError

HeadHeight(hd, heap) == IF hd = NilPtr THEN -1 ELSE heap[hd.ref].header.height

C2_RootMatchesHead ==
    AddBlockSucceeded =>
        \A root \in StateRootOutcomes(accounts) : root = blocks[head.ref].header.stateRoot

\* C3: the head's height never decreases, and the head is always the
\* highest committed block.
C3_HeadMonotonic ==
    [][/\ HeadHeight(head', blocks') >= HeadHeight(head, blocks)
       /\ \A h \in DOMAIN blocks' : blocks'[h].header.height <= HeadHeight(head', blocks')]_vars

\* C9: no call lowers a nonce; a successful ExecuteTx or a committed
\* AddBlock leaves every nonce at least where it was, and a failed one
\* leaves every nonce where it was when the call started.
C9_NoncesNeverDecrease ==
    [][\A a \in Address :
        /\ GetNonce(accounts', a) >= GetNonce(accounts, a)
        /\ last'.err # NoError => GetNonce(accounts', a) = GetNonce(accounts, a)]_vars

\* A committed block on top of an account that has already sent twice.
C9_Witness ==
    /\ AddBlockSucceeded
    /\ GetNonce(accounts, "A") >= 3

\* The block object an index entry points to.
Indexed(h) == blocks[blocksByHash[h].ref]

\* C21: the by-hash index is a tree with one root: at most one indexed block
\* has height 0, a height-0 block offered when a head exists is rejected,
\* and every indexed block of height > 0 has its parent indexed, at the
\* height just below.
C21_IndexIsTree ==
    [][/\ Cardinality({h \in DOMAIN blocksByHash' :
                          blocks'[blocksByHash'[h].ref].header.height = 0}) <= 1
       /\ \A h \in DOMAIN blocksByHash' :
            LET hdr == blocks'[blocksByHash'[h].ref].header
            IN  hdr.height > 0 =>
                  /\ hdr.parentHash \in DOMAIN blocksByHash'
                  /\ blocks'[blocksByHash'[hdr.parentHash].ref].header.height = hdr.height - 1
       /\ (last'.op = "AddBlock" /\ last'.err = NoError /\ head # NilPtr) =>
            \A h \in DOMAIN blocksByHash' \ DOMAIN blocksByHash :
                blocks'[blocksByHash'[h].ref].header.height > 0]_vars

\* A second genesis was refused by a chain that holds a genesis and a child.
C21_Witness ==
    /\ last.op = "AddBlock" /\ last.err = "genesis already exists"
    /\ \E h \in DOMAIN blocksByHash : Indexed(h).header.height > 0

\* C28: a committed block whose height is not above the head's is indexed
\* and leaves head on the block that was there first.
C28_HeadKeptOnSibling ==
    [][(last'.op = "AddBlock" /\ last'.err = NoError /\ head # NilPtr
          /\ \E h \in DOMAIN blocksByHash' :
                /\ blocksByHash'[h] = head'
                /\ blocks'[head'.ref].header.height <= blocks[head.ref].header.height
                /\ h \notin DOMAIN blocksByHash)
        => head' = head]_vars

(***************************************************************************)
(* Forks: blocks that extend any indexed block, the head or not.           *)
(***************************************************************************)
MaxForkBlocks == 4

ForkCandidates ==
    {Produced(ZeroHash, 0, <<>>, "B")}
    \cup {Produced(x[1], ParentHeight(x[1]) + 1, x[2], "B") :
             x \in {q \in DOMAIN blocksByHash : ParentHeight(q) < MaxHeight} \X {<<>>, <<TxPay>>}}

NextFork == \E b \in ForkCandidates : CallAddBlockWithin(b, MaxForkBlocks)

SpecFork == Init /\ [][NextFork]_vars

\* The hash of the block at height h on the parentHash chain that ends in
\* the block with the given hash.
RECURSIVE AncestorAt(_, _)
AncestorAt(hash, h) ==
    IF Indexed(hash).header.height <= h THEN hash
    ELSE AncestorAt(Indexed(hash).header.parentHash, h)

\* C38: for every height up to the head's, GetBlockByHeight returns the
\* ancestor of the head at that height.
C38_HeightIndexFollowsHead ==
    head # NilPtr =>
        \A h \in 0 .. blocks[head.ref].header.height :
            /\ h \in DOMAIN blocksByHeight
            /\ blocksByHeight[h] = BlockRef(AncestorAt(BlockHash(blocks[head.ref]), h))

(***************************************************************************)
(* The Mempool (types/mempool.go 14-109): a slice of pending transactions  *)
(* checked against the StateDB on admission.  The two sorts are            *)
(* sort.Slice, which orders by the comparison only: elements that compare  *)
(* equal may come out in any order.                                        *)
(***************************************************************************)
\* Mempool.maxSize; NewMempool sets 5000.
maxSize == 3

\* The arrangements of the positions 1 .. n, for every length of the pool.
Arrangements == [n \in 0 .. maxSize + 1 |-> Orderings(1 .. n)]

\* seq with its elements in the positions the arrangement o gives them.
Arranged(seq, o) == [i \in 1 .. Len(seq) |-> seq[o[i]]]

\* The comparison of evictLowestGas: ascending gas price.
LowerGasPrice(a, b) == a.gasPrice < b.gasPrice

\* The comparison of PopForBlock: descending gas price.
HigherGasPrice(a, b) == a.gasPrice > b.gasPrice

\* sort.Slice with the comparison of evictLowestGas: every arrangement of
\* seq in which no element is less than one placed before it.
SortByLowerGasPrice(seq) ==
    { Arranged(seq, o) : o \in
        { o \in Arrangements[Len(seq)] :
            \A i, j \in 1 .. Len(seq) : i < j => ~LowerGasPrice(seq[o[j]], seq[o[i]]) } }

\* sort.Slice with the comparison of PopForBlock.
SortByHigherGasPrice(seq) ==
    { Arranged(seq, o) : o \in
        { o \in Arrangements[Len(seq)] :
            \A i, j \in 1 .. Len(seq) : i < j => ~HigherGasPrice(seq[o[j]], seq[o[i]]) } }

\* Mutant: the duplicate scan never finds anything.
MutNeverDuplicate(pend, tx) == FALSE

\* The duplicate scan of AddTx: some pending transaction has tx's hash.
IsDuplicate(pend, tx) == \E i \in 1 .. Len(pend) : TxHash(pend[i]) = TxHash(tx)

\* Mutant: only the value is compared with the balance, the gas is free.
MutCostWithoutGas(tx) == tx.value

\* totalCost of AddTx: value + gasLimit * gasPrice.
AddTxTotalCost(tx) == tx.value + tx.gasLimit * tx.gasPrice

\* Mutant: nothing is dropped.
MutEvictNothing(sorted) == sorted

\* evictLowestGas on what its sort left: the first element is dropped.
evictLowestGas(sorted) == SubSeq(sorted, 2, Len(sorted))

\* Mutant: room is made before the transaction is checked.
MutAddTxEvictsFirst(pend, accts, tx, sorted) ==
    LET room == IF Len(pend) >= maxSize THEN evictLowestGas(sorted) ELSE pend
    IN  IF tx = NilPtr THEN [err |-> "nil tx", pending |-> room]
        ELSE IF IsDuplicate(pend, tx) THEN [err |-> "duplicate transaction", pending |-> room]
        ELSE IF RecoverTxSender(tx).err # NoError
        THEN [err |-> "invalid signature", pending |-> room]
        ELSE IF GetBalance(accts, RecoverTxSender(tx).from) < AddTxTotalCost(tx)
        THEN [err |-> "insufficient balance", pending |-> room]
        ELSE IF tx.nonce < GetNonce(accts, RecoverTxSender(tx).from)
        THEN [err |-> "nonce too low", pending |-> room]
        ELSE [err |-> NoError, pending |-> Append(room, tx)]

\* Mempool.AddTx on the pool pend and the state accts; sorted is what the
\* sort of evictLowestGas leaves when it runs.
MempoolAddTx(pend, accts, tx, sorted) ==
    IF tx = NilPtr THEN [err |-> "nil tx", pending |-> pend]
    ELSE IF IsDuplicate(pend, tx) THEN [err |-> "duplicate transaction", pending |-> pend]
    ELSE IF RecoverTxSender(tx).err # NoError
    THEN [err |-> "invalid signature", pending |-> pend]
    ELSE IF GetBalance(accts, RecoverTxSender(tx).from) < AddTxTotalCost(tx)
    THEN [err |-> "insufficient balance", pending |-> pend]
    ELSE IF tx.nonce < GetNonce(accts, RecoverTxSender(tx).from)
    THEN [err |-> "nonce too low", pending |-> pend]
    ELSE IF Len(pend) >= maxSize
    THEN [err |-> NoError, pending |-> Append(evictLowestGas(sorted), tx)]
    ELSE [err |-> NoError, pending |-> Append(pend, tx)]

\* Mempool.PopForBlock(n) for n >= 0; sorted is what its sort leaves.
PopForBlock(pend, n, sorted) ==
    IF Len(pend) = 0 THEN [selected |-> <<>>, pending |-> pend]
    ELSE LET k == IF n > Len(sorted) THEN Len(sorted) ELSE n
         IN  [selected |-> SubSeq(sorted, 1, k),
              pending |-> SubSeq(sorted, k + 1, Len(sorted))]

\* Mempool.Count
Count == Len(pending)

\* seq without the elements of the set gone.
Without(seq, gone) == SelectSeq(seq, LAMBDA t : t \notin gone)

Range(seq) == {seq[i] : i \in 1 .. Len(seq)}

(***************************************************************************)
(* The pool's specification: transactions arrive from RPC and peers, the   *)
(* producer pops them.  The state store is one of two fixed states, so     *)
(* that the same transaction is admitted against one and refused against   *)
(* the other.                                                              *)
(***************************************************************************)
PoolGasPrices == 1 .. 3
PoolNonces == 0 .. 2
PoolTxs ==
    [signer : {"A"}, nonce : PoolNonces, to : {"B"}, value : {5},
     gasPrice : PoolGasPrices, gasLimit : {10}]
    \cup {[signer |-> NoSigner, nonce |-> 1, to |-> "B", value |-> 5, gasPrice |-> 1, gasLimit |-> 10]}

PoolStates ==
    { [a \in {"A"} |-> [balance |-> 30, nonce |-> 0]],
      [a \in {"A"} |-> [balance |-> 35, nonce |-> 1]] }

PopSizes == {0, 1, 2, 100}

InitPool ==
    /\ accounts \in PoolStates
    /\ snapshots = <<>>
    /\ execCurrent = NilPtr
    /\ blocks = EmptyMap
    /\ blocksByHash = EmptyMap
    /\ blocksByHeight = EmptyMap
    /\ head = NilPtr
    /\ config = MainConfig
    /\ last = [op |-> "New", err |-> NoError]
    /\ lowBal = 0
    /\ mark = NoMark
    /\ ledger = NoLedger
    /\ pending = <<>>
    /\ admitted = <<>>
    /\ inflight = Idle
    /\ NodeInit

PoolUnchanged ==
    UNCHANGED <<accounts, snapshots, execCurrent, blocks, blocksByHash, blocksByHeight, head,
                config, lowBal, mark, ledger, inflight, nodeVars>>

CallAddTx(tx) ==
    /\ \E sorted \in IF Len(pending) >= maxSize THEN SortByLowerGasPrice(pending) ELSE {pending} :
         \E r \in {MempoolAddTx(pending, accounts, tx, sorted)} :
           /\ pending' = r.pending
           /\ admitted' = IF r.err = NoError
                          THEN Append(Without(admitted, Range(pending) \ Range(r.pending)), tx)
                          ELSE admitted
           /\ last' = [op |-> "AddTx", err |-> r.err, tx |-> tx,
                       full |-> (Len(pending) >= maxSize)]
    /\ PoolUnchanged

CallPopForBlock(n) ==
    /\ \E sorted \in SortByHigherGasPrice(pending) :
         \E r \in {PopForBlock(pending, n, sorted)} :
           /\ pending' = r.pending
           /\ admitted' = Without(admitted, Range(r.selected))
           /\ last' = [op |-> "PopForBlock", err |-> NoError, n |-> n, selected |-> r.selected]
    /\ PoolUnchanged

NextPool ==
    \/ \E tx \in PoolTxs \cup {NilPtr} : CallAddTx(tx)
    \/ \E n \in PopSizes : CallPopForBlock(n)

SpecPool == InitPool /\ [][NextPool]_vars

(***************************************************************************)
(* Properties of the Mempool.                                              *)
(***************************************************************************)
AddTxRejected == last'.op = "AddTx" /\ last'.err # NoError

AddTxAdmitted == last'.op = "AddTx" /\ last'.err = NoError

\* C15: a rejected AddTx (nil transaction, duplicate id, unrecoverable
\* signature, balance below the total cost, nonce below the state nonce)
\* leaves the pending set exactly as it was, evicts nothing, and does not
\* modify the state store.
C15_RejectedAddTxChangesNothing ==
    [][AddTxRejected => /\ pending' = pending
                        /\ accounts' = accounts
                        /\ snapshots' = snapshots]_vars

\* The last check of AddTx failed on a full pool.
C15_Witness == last.op = "AddTx" /\ last.err = "nonce too low" /\ last.full

\* C16: no two pending transactions have the same id, and an AddTx whose
\* transaction id is already pending is rejected as a duplicate.
C16_NoDuplicateIds ==
    [][/\ \A i, j \in 1 .. Len(pending') :
            i # j => TxHash(pending'[i]) # TxHash(pending'[j])
       /\ (last'.op = "AddTx" /\ \E i \in 1 .. Len(pending) : pending[i] = last'.tx) =>
            last'.err = "duplicate transaction"]_vars

\* A pending transaction was submitted again.
C16_Witness == last.op = "AddTx" /\ last.err = "duplicate transaction" /\ Len(pending) > 0

\* The account AddTx reads for tx, in the state store as it is now.
SenderAccount(tx) == Lookup(accounts, tx.signer)

\* C17: AddTx admits a transaction only if the sender's balance covers
\* value + gasLimit * gasPrice and its nonce is not below the sender's state
\* nonce, both read at admission time; a new, well-signed transaction that
\* meets both is admitted, whatever else the sender has pending and however
\* far above the state nonce its nonce is.
C17_AdmissionRule ==
    [][last'.op = "AddTx" /\ last'.tx # NilPtr =>
         LET tx == last'.tx
             covered == SenderAccount(tx).balance >= tx.value + tx.gasLimit * tx.gasPrice
             fresh == tx.nonce >= SenderAccount(tx).nonce
         IN  /\ last'.err = NoError => covered /\ fresh
             /\ (tx.signer # NoSigner /\ tx \notin Range(pending) /\ covered /\ fresh) =>
                    last'.err = NoError]_vars

\* A transaction with a nonce above the state nonce was admitted next to
\* another pending transaction of the same sender.
C17_Witness ==
    /\ last.op = "AddTx" /\ last.err = NoError
    /\ last.tx.nonce > SenderAccount(last.tx).nonce
    /\ \E i \in 1 .. Len(pending) :
          pending[i] # last.tx /\ pending[i].signer = last.tx.signer

\* C18: Count() never exceeds the capacity, and an AddTx admitted into a
\* full pool evicts exactly one of the transactions that were pending,
\* inserts the new one, and leaves Count() at the capacity.
C18_CapacityBound ==
    [][/\ Len(pending') <= maxSize
       /\ (AddTxAdmitted /\ Len(pending) = maxSize) =>
            /\ Len(pending') = maxSize
            /\ Cardinality(Range(pending) \ Range(pending')) = 1
            /\ Range(pending') \ Range(pending) = {last'.tx}]_vars

\* An admission into a full pool.
C18_Witness == last.op = "AddTx" /\ last.err = NoError /\ last.full /\ Count = maxSize

\* The lowest gas price among the transactions of seq.
LowestGasPrice(seq) == Min({seq[i].gasPrice : i \in 1 .. Len(seq)})

\* The first transaction of seq with the lowest gas price.
EarliestLowest(seq) ==
    seq[Min({i \in 1 .. Len(seq) : seq[i].gasPrice = LowestGasPrice(seq)})]

\* C19: the transaction evicted by an admission into a full pool has the
\* lowest gas price among those pending before the insertion and, among
\* those with that price, is the one admitted earliest.
C19_EvictsEarliestLowest ==
    [][(AddTxAdmitted /\ Len(pending) >= maxSize) =>
         Range(pending) \ Range(pending') = {EarliestLowest(admitted)}]_vars

\* seq in descending gas price, transactions of equal price in the order
\* they have in seq.
StableDescending(seq) ==
    LET o == CHOOSE o \in Arrangements[Len(seq)] :
                 \A i, j \in 1 .. Len(seq) :
                    i < j => \/ seq[o[i]].gasPrice > seq[o[j]].gasPrice
                             \/ seq[o[i]].gasPrice = seq[o[j]].gasPrice /\ o[i] < o[j]
    IN  [i \in 1 .. Len(seq) |-> seq[o[i]]]

\* C20: PopForBlock(n) returns the first min(n, Count) transactions of the
\* pending set sorted by descending gas price with ties in admission order,
\* and removes exactly those from the pool.
C20_PopIsStableDescendingPrefix ==
    [][last'.op = "PopForBlock" =>
         LET k == IF last'.n > Len(pending) THEN Len(pending) ELSE last'.n
         IN  /\ last'.selected = SubSeq(StableDescending(admitted), 1, k)
             /\ Range(pending') = Range(pending) \ Range(last'.selected)]_vars

(***************************************************************************)
(* The node: validator votes, the witness queue and the producer round     *)
(* (one tick of miningLoop with the createAndSubmitBlock it leads to).     *)
(* A vote is [voter, signer, height, block]: signer is the address its     *)
(* signature recovers to.                                                  *)
(***************************************************************************)
MaxWitnesses == 1
BlockTxLimit == 100
MinerAddress == "P"

\* The chain main.go hands to NewNode: the genesis block sealed over the
\* minted allocation and committed.
GenesisBlock == Sealed(ZeroHash, 0, <<>>, "A", SortedRoot(GenesisAccounts))

GenesisChain == commitBlock(EmptyMap, EmptyMap, EmptyMap, GenesisBlock)

\* Blockchain.Head, dereferenced
HeadBlock == blocks[head.ref]

\* VerifyValidatorVote
VerifyValidatorVote(v) ==
    IF v.signer = NoSigner THEN "invalid signature"
    ELSE IF v.signer # v.voter THEN "voter mismatch"
    ELSE NoError

\* Mutant: no stored vote is ever taken for the voter's.
MutNeverSameVoter(existing, v) == FALSE

\* The comparison of the deduplication loop of AddValidatorVote.
SameVoter(existing, v) == existing.voter = v.voter

\* n.validatorVotes[height], the empty list for a missing key
Bucket(votes, height) == IF height \in DOMAIN votes THEN votes[height] ELSE <<>>

\* Node.AddValidatorVote on the vote map votes
AddValidatorVote(votes, v) ==
    LET list == Bucket(votes, v.height)
    IN  IF VerifyValidatorVote(v) # NoError THEN [err |-> VerifyValidatorVote(v), votes |-> votes]
        ELSE IF head = NilPtr THEN [err |-> NoError, votes |-> votes]
        ELSE IF v.height # HeadBlock.header.height \/ v.block # BlockHash(HeadBlock)
        THEN [err |-> NoError, votes |-> votes]
        ELSE IF \E i \in 1 .. Len(list) : SameVoter(list[i], v)
        THEN [err |-> NoError, votes |-> votes]
        ELSE [err |-> NoError, votes |-> Put(votes, v.height, Append(list, v))]

\* delete(m, k)
Delete(f, k) == [x \in DOMAIN f \ {k} |-> f[x]]

\* Mutant: the dry run leaves what it executed in the StateDB.
MutDryRunKeeps(st, cfg, hdr, txs) ==
    TheOnly({ [err |-> ex.err, executed |-> ex.st.accounts, low |-> ex.low, st |-> ex.st]
              : ex \in {ExecuteFrom(StateSnapshot(st).st, cfg, [header |-> hdr, txs |-> txs], 1,
                                    MinBalance(st.accounts))} })

\* Mutant: the validator is taken from the newest vote of the bucket.
MutPickLastVote(list) == list[Len(list)].voter

\* The vote createAndSubmitBlock takes the validator from: votes[0].
PickVote(list) == list[1].voter

\* Mutant: the witness is taken from the back of the queue.
MutPickLastWitness(queue) == queue[Len(queue)]

\* The witness createAndSubmitBlock takes: witnessQueue[0].
PickWitness(queue) == queue[1]

\* The witness and validator picks of createAndSubmitBlock on a head at
\* parentHeight: the two addresses and what is left of queue and votes.
PickTiers(queue, votes, parentHeight) ==
    [witness |-> IF Len(queue) > 0 THEN PickWitness(queue) ELSE ZeroAddress,
     witnessQueue |-> IF Len(queue) > 0 THEN Tail(queue) ELSE queue,
     validator |-> IF parentHeight \in DOMAIN votes /\ Len(votes[parentHeight]) > 0
                   THEN PickVote(votes[parentHeight])
                   ELSE ZeroAddress,
     validatorVotes |-> IF parentHeight \in DOMAIN votes /\ Len(votes[parentHeight]) > 0
                        THEN Delete(votes, parentHeight)
                        ELSE votes]

\* The candidate of createAndSubmitBlock over the head, with the given tier
\* picks and state root.
Candidate(txs, pick, root) ==
    LET b == Sealed(BlockHash(HeadBlock), HeadBlock.header.height + 1, txs, MinerAddress, root)
    IN  [b EXCEPT !.header.validator = pick.validator, !.header.witness = pick.witness]

\* The dry run of createAndSubmitBlock: snapshot, the transactions through
\* ExecuteTx up to the first failure, and the revert.  executed is the
\* account map StateRoot() is called on, st the StateDB after the revert.
DryRun(st, cfg, hdr, txs) ==
    LET snap == StateSnapshot(st)
    IN  TheOnly({ [err |-> ex.err, executed |-> ex.st.accounts, low |-> ex.low,
                   st |-> StateRevertToSnapshot(ex.st, snap.id)]
                  : ex \in {ExecuteFrom(snap.st, cfg, Executable(hdr, txs), 1,
                                        MinBalance(st.accounts))} })

\* Two transfers of the genesis holder that the pool admits next to each
\* other and the balance covers one at a time only.
TxAll == [signer |-> "A", nonce |-> 1, to |-> "B", value |-> GenesisSupply, gasPrice |-> 0, gasLimit |-> 20]

NodeTxs == {TxPay, TxAll}

NodeVoters == {"V", "W"}

\* The votes that reach the node: for the head and for another block or
\* height, signed by the voter and by somebody else.
NodeVotes ==
    [voter : NodeVoters, signer : NodeVoters, height : {HeadBlock.header.height, MaxHeight},
     block : {BlockHash(HeadBlock), UnknownHash}]

InitNode ==
    /\ accounts = GenesisAccounts
    /\ snapshots = <<>>
    /\ execCurrent = NilPtr
    /\ blocks = GenesisChain.blocks
    /\ blocksByHash = GenesisChain.blocksByHash
    /\ blocksByHeight = GenesisChain.blocksByHeight
    /\ head = GenesisChain.head
    /\ config = MainConfig
    /\ last = [op |-> "New", err |-> NoError]
    /\ lowBal = 0
    /\ mark = NoMark
    /\ ledger = NoLedger
    /\ pending = <<>>
    /\ admitted = <<>>
    /\ inflight = Idle
    /\ NodeInit

\* Node.AddWitness, for the first limit witnesses
CallAddWitnessWithin(w, limit) ==
    /\ Len(witnessLog.added) < limit
    /\ witnessQueue' = Append(witnessQueue, w)
    /\ witnessLog' = [witnessLog EXCEPT !.added = Append(@, w)]
    /\ last' = [op |-> "AddWitness", err |-> NoError]
    /\ UNCHANGED <<accounts, snapshots, execCurrent, blocks, blocksByHash, blocksByHeight, head,
                   config, lowBal, mark, ledger, pending, admitted, inflight,
                   validatorVotes, network, peers, traffic, stepVars>>

CallAddWitness(w) == CallAddWitnessWithin(w, MaxWitnesses)

\* Node.AddValidatorVote
CallAddValidatorVote(v) ==
    /\ \E r \in {AddValidatorVote(validatorVotes, v)} :
         /\ validatorVotes' = r.votes
         /\ last' = [op |-> "AddValidatorVote", err |-> r.err]
    /\ UNCHANGED <<accounts, snapshots, execCurrent, blocks, blocksByHash, blocksByHeight, head,
                   config, lowBal, mark, ledger, pending, admitted, inflight,
                   witnessQueue, network, peers, traffic, witnessLog, stepVars>>

\* One tick of Node.miningLoop: PopForBlock(100), and createAndSubmitBlock
\* when something was popped.  The round runs with no other context in
\* between; the two StateRoot() calls, the producer's and AddBlock's, each
\* range over the map in an order of their own.
ProducerRound ==
    /\ head # NilPtr => HeadBlock.header.height < MaxHeight
    /\ \E sorted \in SortByHigherGasPrice(pending) :
       \E pop \in {PopForBlock(pending, BlockTxLimit, sorted)} :
         /\ pending' = pop.pending
         /\ admitted' = Without(admitted, Range(pop.selected))
         /\ IF Len(pop.selected) = 0 \/ head = NilPtr
            THEN /\ last' = [op |-> "miningLoop", err |-> NoError,
                             stage |-> IF Len(pop.selected) = 0 THEN "idle" ELSE "no head"]
                 /\ lowBal' = MinBalance(accounts)
                 /\ UNCHANGED <<accounts, snapshots, execCurrent, blocks, blocksByHash,
                                blocksByHeight, head, witnessQueue, validatorVotes, witnessLog>>
            ELSE \E pick \in {PickTiers(witnessQueue, validatorVotes, HeadBlock.header.height)} :
                 \E dry \in {DryRun(StateDB, config, Candidate(pop.selected, pick, ZeroHash).header,
                                    pop.selected)} :
                   /\ witnessQueue' = pick.witnessQueue
                   /\ witnessLog' = IF Len(witnessQueue) > 0
                                    THEN [witnessLog EXCEPT !.used = Append(@, pick.witness)]
                                    ELSE witnessLog
                   /\ validatorVotes' = pick.validatorVotes
                   /\ IF dry.err # NoError
                      THEN /\ accounts' = dry.st.accounts
                           /\ snapshots' = dry.st.snapshots
                           /\ execCurrent' = LooseHeader(Candidate(pop.selected, pick, ZeroHash).header)
                           /\ last' = [op |-> "miningLoop", err |-> dry.err,
                                       stage |-> "dry run", validator |-> pick.validator,
                                       witness |-> pick.witness]
                           /\ lowBal' = dry.low
                           /\ UNCHANGED <<blocks, blocksByHash, blocksByHeight, head>>
                      ELSE \E dryRoot \in StateRootOutcomes(dry.executed) :
                           \E b \in {Candidate(pop.selected, pick, dryRoot)} :
                           \E finalRoot \in StateRootOutcomes(ExecutedAccountsOn(dry.st, b)) :
                           \E r \in {AddBlockOn(dry.st, LooseHeader(b.header), b, finalRoot)} :
                             /\ accounts' = r.st.accounts
                             /\ snapshots' = r.st.snapshots
                             /\ execCurrent' = r.execCurrent
                             /\ blocks' = r.blocks
                             /\ blocksByHash' = r.blocksByHash
                             /\ blocksByHeight' = r.blocksByHeight
                             /\ head' = r.head
                             /\ last' = [op |-> "miningLoop", err |-> r.err,
                                         stage |-> "submitted", validator |-> pick.validator,
                                         witness |-> pick.witness]
                             /\ lowBal' = r.low
    /\ UNCHANGED <<config, mark, ledger, inflight, network, peers, traffic>>

\* The round of a producer that is the only goroutine of the node.
MiningRound == ProducerRound /\ UNCHANGED stepVars

NextNode ==
    \/ \E tx \in NodeTxs : CallAddTx(tx)
    \/ CallAddWitness("W")
    \/ \E v \in NodeVotes : CallAddValidatorVote(v)
    \/ MiningRound

SpecNode == InitNode /\ [][NextNode]_vars

(***************************************************************************)
(* Properties of the node, checked under SpecNode.                         *)
(***************************************************************************)
\* A step of miningLoop that got as far as building a candidate.
RoundBuilt == last'.op = "miningLoop" /\ last'.stage \in {"dry run", "submitted"}

\* A round that failed: in the dry run or at Chain.AddBlock.
RoundFailed == RoundBuilt /\ last'.err # NoError

\* C24: AddValidatorVote stores a vote only if its signature recovers to
\* the declared voter and its height and block hash are those of the head
\* at the time of the call, appending it to the bucket of its height; and
\* after every step each bucket holds at most one vote per voter.
C24_VotesForHeadOncePerVoter ==
    [][/\ \A v \in NodeVotes :
            (CallAddValidatorVote(v) /\ validatorVotes' # validatorVotes) =>
               /\ v.signer = v.voter
               /\ head # NilPtr
               /\ v.height = HeadBlock.header.height
               /\ v.block = BlockHash(HeadBlock)
               /\ validatorVotes' = Put(validatorVotes, v.height,
                                        Append(Bucket(validatorVotes, v.height), v))
       /\ \A h \in DOMAIN validatorVotes' :
            \A i, j \in 1 .. Len(validatorVotes'[h]) :
               i # j => validatorVotes'[h][i].voter # validatorVotes'[h][j].voter]_vars

\* Two voters' votes for the head are stored in one bucket.
C24_Witness ==
    /\ last.op = "AddValidatorVote"
    /\ \E h \in DOMAIN validatorVotes : Len(validatorVotes[h]) = 2

\* C26: with nothing else running during the round, a candidate whose dry
\* run succeeded is committed by Chain.AddBlock and becomes the head.
C26_DryRunSuccessCommits ==
    [][(last'.op = "miningLoop" /\ last'.stage = "submitted") =>
         /\ last'.err = NoError
         /\ head' # head]_vars

\* C27: a failed round leaves accounts, snapshots, block indexes and head as
\* they were, and the drained transactions are gone from the pool.
C27_FailedRoundDropsCandidate ==
    [][RoundFailed =>
         /\ accounts' = accounts
         /\ snapshots' = snapshots
         /\ blocks' = blocks
         /\ blocksByHash' = blocksByHash
         /\ blocksByHeight' = blocksByHeight
         /\ head' = head
         /\ Len(pending) > 0
         /\ Len(pending') = IF Len(pending) > BlockTxLimit THEN Len(pending) - BlockTxLimit ELSE 0
         /\ Range(pending') \subseteq Range(pending)]_vars

\* A round failed in its dry run on the second transaction and the pool is
\* empty.
C27_Witness ==
    /\ last.op = "miningLoop"
    /\ last.stage = "dry run"
    /\ last.err = "insufficient balance"
    /\ pending = <<>>
    /\ accounts = GenesisAccounts

\* C30: the candidate built on a head at height h carries as validator the
\* voter of the first vote stored for h, the zero address when none is
\* stored, and the bucket of h is gone after the step while every other
\* bucket is as before.
C30_FirstVoteUsedOnce ==
    [][RoundBuilt =>
         LET h == HeadBlock.header.height
         IN  /\ last'.validator = IF Len(Bucket(validatorVotes, h)) > 0
                                  THEN validatorVotes[h][1].voter
                                  ELSE ZeroAddress
             /\ h \notin DOMAIN validatorVotes'
             /\ validatorVotes' = Delete(validatorVotes, h)
             /\ (last'.err = NoError /\ last'.stage = "submitted") =>
                    blocks'[head'.ref].header.validator = last'.validator]_vars

\* A block was committed with the validator of a stored vote, and no vote
\* for its parent's height is left.
C30_Witness ==
    /\ last.op = "miningLoop"
    /\ last.stage = "submitted"
    /\ last.err = NoError
    /\ last.validator = "W"
    /\ HeadBlock.header.validator = "W"
    /\ 0 \notin DOMAIN validatorVotes

(***************************************************************************)
(* The witness queue on its own: witnesses of two addresses arrive while   *)
(* the producer builds candidates.                                         *)
(***************************************************************************)
MaxQueued == 3

WitnessAddresses == {"V", "W"}

NextWitness ==
    \/ \E tx \in NodeTxs : CallAddTx(tx)
    \/ \E w \in WitnessAddresses : CallAddWitnessWithin(w, MaxQueued)
    \/ MiningRound

SpecWitness == InitNode /\ [][NextWitness]_vars

\* C31: witnesses leave the queue in the order AddWitness took them: the
\* witnesses placed in candidates so far, followed by the queue, are the
\* witnesses added so far; a candidate built on a non-empty queue carries
\* the oldest witness not yet placed, and one built on an empty queue the
\* zero address.
C31_WitnessesFirstInFirstOut ==
    [][/\ witnessLog'.added = witnessLog'.used \o witnessQueue'
       /\ RoundBuilt =>
            /\ last'.witness = IF Len(witnessQueue) > 0
                               THEN witnessLog.added[Len(witnessLog.used) + 1]
                               ELSE ZeroAddress
            /\ Len(witnessLog'.used) = Len(witnessLog.used) + (IF Len(witnessQueue) > 0 THEN 1 ELSE 0)
            /\ (last'.err = NoError /\ last'.stage = "submitted") =>
                   blocks'[head'.ref].header.witness = last'.witness]_vars

\* The second candidate was committed with the second witness added, of
\* another address than the first, and a third witness is still queued.
C31_Witness ==
    /\ last.op = "miningLoop"
    /\ last.stage = "submitted"
    /\ last.err = NoError
    /\ witnessLog.used = <<"V", "W">>
    /\ HeadBlock.header.witness = "W"
    /\ Len(witnessQueue) = 1

(***************************************************************************)
(* The life of the producer: Start and Stop from the outside, and each     *)
(* miningLoop goroutine stepping through its for loop.                     *)
(***************************************************************************)
MaxStarts == 2

\* Everything but the miner that no step of Start, Stop or the loop head
\* touches.
LoopUnchanged ==
    UNCHANGED <<accounts, snapshots, execCurrent, blocks, blocksByHash, blocksByHeight, head,
                config, last, lowBal, mark, ledger, pending, admitted, inflight,
                witnessQueue, validatorVotes, network, peers, traffic, witnessLog,
                producer, callers>>

\* The number of miningLoop goroutines that have not returned.
Loops == miner.loops.check + miner.loops.wait + miner.loops.round

\* The loops past their IsRunning check: each of them goes on to
\* PopForBlock and createAndSubmitBlock.
ActiveLoops == miner.loops.wait + miner.loops.round

\* Node.Start: nothing when Running is set, else Running = true and a new
\* miningLoop goroutine.
NodeStart ==
    /\ miner.starts < MaxStarts
    /\ miner' = IF miner.running THEN miner
                ELSE [running |-> TRUE, starts |-> miner.starts + 1,
                      loops |-> [miner.loops EXCEPT !.check = @ + 1]]
    /\ LoopUnchanged

\* Node.Stop
NodeStop ==
    /\ miner' = [miner EXCEPT !.running = FALSE]
    /\ LoopUnchanged

\* Mutant: the loop goes on whatever IsRunning returns.
MutLoopNeverReturns(running) == FALSE

\* The return of miningLoop: if !n.IsRunning() { return }
LoopReturns(running) == ~running

\* The head of the for loop of miningLoop in one goroutine.
LoopCheck ==
    /\ miner.loops.check > 0
    /\ miner' = IF LoopReturns(miner.running)
                THEN [miner EXCEPT !.loops.check = @ - 1]
                ELSE [miner EXCEPT !.loops.check = @ - 1, !.loops.wait = @ + 1]
    /\ LoopUnchanged

\* <-ticker.C in one goroutine
LoopTick ==
    /\ miner.loops.wait > 0
    /\ miner' = [miner EXCEPT !.loops.wait = @ - 1, !.loops.round = @ + 1]
    /\ LoopUnchanged

\* What a completed round does to the goroutine that ran it.
RoundCompletes ==
    /\ miner.loops.round > 0
    /\ miner' = [miner EXCEPT !.loops.round = @ - 1, !.loops.check = @ + 1]

\* The rest of the loop body in one goroutine: PopForBlock and
\* createAndSubmitBlock, and back to the head of the loop.
LoopRound ==
    /\ RoundCompletes
    /\ ProducerRound
    /\ UNCHANGED <<producer, callers>>

\* Transactions reach the pool while the chain has room for their block.
LoopAddTx ==
    /\ HeadBlock.header.height + 1 < MaxHeight
    /\ CallAddTx(TxPay)

NextLoop ==
    \/ NodeStart
    \/ NodeStop
    \/ LoopCheck
    \/ LoopTick
    \/ LoopRound
    \/ LoopAddTx

SpecLoop == InitNode /\ [][NextLoop]_vars

\* The ticker keeps firing, every goroutine gets to run, and a round that
\* was begun completes.
SpecLoopLive ==
    SpecLoop /\ WF_miner(LoopCheck) /\ WF_miner(LoopTick) /\ WF_miner(RoundCompletes)

\* C32: once Running is false, either Running is set again or every mining
\* loop returns.
C32_StoppedLoopReturns == (~miner.running) ~> (miner.running \/ Loops = 0)

\* The node was started, a block was produced, and after Stop no loop is
\* left.
C32_Witness ==
    /\ miner.starts > 0
    /\ ~miner.running
    /\ Loops = 0
    /\ HeadBlock.header.height > 0

\* C35: at most one mining loop is past its IsRunning check at any time.
C35_AtMostOneLoop == ActiveLoops <= 1

(***************************************************************************)
(* The producer next to peer ingress: createAndSubmitBlock runs its dry    *)
(* run on the shared StateDB under the node's lock only, while             *)
(* handleP2PBlock calls Chain.AddBlock under the chain's lock.  Each       *)
(* StateDB call of either side is one step.                                *)
(***************************************************************************)
\* The accounts after the chain that ends in the block stored under h.
RECURSIVE StateAt(_)
StateAt(h) ==
    IF blocks[h].header.height = 0 THEN GenesisAccounts
    ELSE ExecuteBlock([accounts |-> StateAt(blocksByHash[blocks[h].header.parentHash].ref),
                       snapshots |-> <<>>], config, blocks[h]).st.accounts

\* What a peer that follows the same chain sends: a child of the head,
\* sealed over the accounts its body leaves.
RaceCandidates ==
    { Sealed(BlockHash(HeadBlock), HeadBlock.header.height + 1, body, "B",
             SortedRoot(ExecuteBlock([accounts |-> StateAt(head.ref), snapshots |-> <<>>], config,
                                     Executable(HeadBlock.header, body)).st.accounts))
      : body \in IF HeadBlock.header.height < MaxHeight THEN {<<>>, <<TxPay>>} ELSE {} }

\* What PopForBlock hands to createAndSubmitBlock.
RaceTxs == {<<TxPay>>, <<TxPay, TxAll>>}

\* Everything a step of the dry run leaves alone besides the StateDB, the
\* executor's header and the node's own fields.
ProducerUnchanged ==
    UNCHANGED <<blocks, blocksByHash, blocksByHeight, head, config, lowBal, mark, ledger,
                pending, admitted, inflight, network, peers, traffic, miner, callers>>

\* createAndSubmitBlock up to the loop of the dry run: the tier picks, the
\* header skeleton over the head, Snapshot and SetCurrentHeader.  Rounds
\* begin while the sender's nonce is below the bound.
ProducerBegin(txs) ==
    /\ producer = Idle
    /\ HeadBlock.header.height < MaxHeight
    /\ GetNonce(accounts, "A") < MaxBlockNonce
    /\ \E pick \in {PickTiers(witnessQueue, validatorVotes, HeadBlock.header.height)} :
       \E snap \in {StateSnapshot(StateDB)} :
         /\ witnessQueue' = pick.witnessQueue
         /\ witnessLog' = IF Len(witnessQueue) > 0
                          THEN [witnessLog EXCEPT !.used = Append(@, pick.witness)]
                          ELSE witnessLog
         /\ validatorVotes' = pick.validatorVotes
         /\ snapshots' = snap.st.snapshots
         /\ execCurrent' = LooseHeader(Candidate(txs, pick, ZeroHash).header)
         /\ producer' = [pc |-> "execute", txs |-> txs, i |-> 1, snap |-> snap.id,
                         header |-> Candidate(txs, pick, ZeroHash).header, err |-> NoError]
    /\ UNCHANGED <<accounts, last>>
    /\ ProducerUnchanged

\* One turn of the loop of the dry run: Executor.ExecuteTx under the
\* header e.current points to.
ProducerExecuteTx ==
    /\ producer.pc = "execute"
    /\ producer.i <= Len(producer.txs)
    /\ \E r \in {ExecuteTx(StateDB, config, CurrentHeader, producer.txs[producer.i])} :
         /\ accounts' = r.st.accounts
         /\ snapshots' = r.st.snapshots
         /\ producer' = IF r.err = NoError
                         THEN [producer EXCEPT !.i = @ + 1]
                         ELSE [producer EXCEPT !.pc = "revert", !.err = r.err]
    /\ UNCHANGED <<execCurrent, last, witnessQueue, validatorVotes, witnessLog>>
    /\ ProducerUnchanged

\* header.StateRoot = n.State.StateRoot()
ProducerStateRoot ==
    /\ producer.pc = "execute"
    /\ producer.i > Len(producer.txs)
    /\ \E root \in StateRootOutcomes(accounts) :
         producer' = [producer EXCEPT !.pc = "revert", !.header.stateRoot = root]
    /\ UNCHANGED <<accounts, snapshots, execCurrent, last, witnessQueue, validatorVotes, witnessLog>>
    /\ ProducerUnchanged

\* n.State.RevertToSnapshot(snap), on either path; the failed dry run
\* returns here.
ProducerRevert ==
    /\ producer.pc = "revert"
    /\ \E r \in {StateRevertToSnapshot(StateDB, producer.snap)} :
         /\ accounts' = r.accounts
         /\ snapshots' = r.snapshots
    /\ IF producer.err # NoError
       THEN /\ producer' = Idle
            /\ last' = [op |-> "miningLoop", err |-> producer.err, stage |-> "dry run",
                        validator |-> producer.header.validator, witness |-> producer.header.witness]
       ELSE /\ producer' = [producer EXCEPT !.pc = "submit"]
            /\ last' = last
    /\ UNCHANGED <<execCurrent, witnessQueue, validatorVotes, witnessLog>>
    /\ ProducerUnchanged

\* NewBlock, ComputeTxRoot and Chain.AddBlock, once the chain's lock is
\* free.
ProducerSubmit ==
    /\ producer.pc = "submit"
    /\ inflight = Idle
    /\ \E b \in {NewBlock(producer.header, producer.txs)} :
       \E finalRoot \in StateRootOutcomes(ExecutedAccountsOn(StateDB, b)) :
       \E r \in {AddBlockOn(StateDB, execCurrent, b, finalRoot)} :
         /\ Cardinality(DOMAIN r.blocks) <= MaxBlocks
         /\ accounts' = r.st.accounts
         /\ snapshots' = r.st.snapshots
         /\ execCurrent' = r.execCurrent
         /\ blocks' = r.blocks
         /\ blocksByHash' = r.blocksByHash
         /\ blocksByHeight' = r.blocksByHeight
         /\ head' = r.head
         /\ lowBal' = r.low
         /\ last' = [op |-> "miningLoop", err |-> r.err, stage |-> "submitted",
                     validator |-> producer.header.validator, witness |-> producer.header.witness]
    /\ producer' = Idle
    /\ UNCHANGED <<config, mark, ledger, pending, admitted, inflight, witnessQueue, validatorVotes,
                   network, peers, traffic, witnessLog, miner, callers>>

NextRace ==
    \/ \E b \in RaceCandidates : AddBlockEnter(b)
    \/ AddBlockExecuteTx
    \/ AddBlockVerify
    \/ AddBlockReject
    \/ \E txs \in RaceTxs : ProducerBegin(txs)
    \/ ProducerExecuteTx
    \/ ProducerStateRoot
    \/ ProducerRevert
    \/ ProducerSubmit

SpecRace == InitNode /\ [][NextRace]_vars

\* Neither an AddBlock call nor a dry run is in progress.
Quiescent == inflight = Idle /\ producer = Idle

\* C33: in every quiescent state the head's state root is a digest of the
\* account map, whatever the interleaving of the dry run with the AddBlock
\* calls of peer ingress.
C33_QuiescentRootIsHeadRoot ==
    Quiescent => HeadBlock.header.stateRoot \in StateRootOutcomes(accounts)

(***************************************************************************)
(* Snapshot() called from two contexts at once.  The method takes no lock: *)
(* the copy of the map, the read of the slice by append, the store of the  *)
(* appended slice and the read of its length for the result are steps of   *)
(* their own, and balances are credited in between.                        *)
(***************************************************************************)
\* Everything a step of a Snapshot() call leaves alone besides the stack.
SnapshotUnchanged ==
    UNCHANGED <<accounts, execCurrent, blocks, blocksByHash, blocksByHeight, head, config, last,
                lowBal, mark, ledger, pending, admitted, inflight, witnessQueue, validatorVotes,
                network, peers, traffic, witnessLog, miner, producer>>

\* snap := make(...); for addr, acc := range s.accounts { snap[addr] = acc.Copy() }
SnapshotCopy(c) ==
    /\ callers[c].pc \in {"idle", "done"}
    /\ Len(snapshots) < MaxSnapshots
    /\ callers' = [callers EXCEPT ![c] = [pc |-> "copied", snap |-> accounts]]
    /\ UNCHANGED snapshots
    /\ SnapshotUnchanged

\* append reads s.snapshots.
SnapshotLoad(c) ==
    /\ callers[c].pc = "copied"
    /\ callers' = [callers EXCEPT ![c] = [pc |-> "loaded", snap |-> callers[c].snap,
                                          len |-> Len(snapshots)]]
    /\ UNCHANGED snapshots
    /\ SnapshotUnchanged

\* The maps that may end up in the slot past len entries when c stores its
\* slice: its own copy, or that of a call that wrote the same slot.
SlotOutcomes(c) ==
    {callers[c].snap}
    \cup {callers[d].snap : d \in {e \in Contexts \ {c} : /\ callers[e].pc \in {"stored", "done"}
                                                         /\ callers[e].len = callers[c].len}}

\* s.snapshots = append(...): the entries that were read, and the new one.
SnapshotStore(c) ==
    /\ callers[c].pc = "loaded"
    /\ \E x \in SlotOutcomes(c) :
         snapshots' = Append(SubSeq(snapshots, 1, callers[c].len), x)
    /\ callers' = [callers EXCEPT ![c].pc = "stored"]
    /\ SnapshotUnchanged

\* return len(s.snapshots) - 1
SnapshotReturn(c) ==
    /\ callers[c].pc = "stored"
    /\ callers' = [callers EXCEPT ![c] = [pc |-> "done", snap |-> callers[c].snap,
                                          len |-> callers[c].len, id |-> Len(snapshots) - 1]]
    /\ UNCHANGED snapshots
    /\ SnapshotUnchanged

NextSnap ==
    \/ \E c \in Contexts : SnapshotCopy(c)
    \/ \E c \in Contexts : SnapshotLoad(c)
    \/ \E c \in Contexts : SnapshotStore(c)
    \/ \E c \in Contexts : SnapshotReturn(c)
    \/ CallAddBalance("B", 1)

SpecSnap == InitNode /\ [][NextSnap]_vars

\* C39: the handles two contexts hold are distinct, and the stack entry of
\* each handle is the copy its own call made.
C39_ConcurrentSnapshotsDistinct ==
    /\ \A c, d \in Contexts :
          (c # d /\ callers[c].pc = "done" /\ callers[d].pc = "done") =>
              callers[c].id # callers[d].id
    /\ \A c \in Contexts :
          callers[c].pc = "done" => snapshots[callers[c].id + 1] = callers[c].snap

(***************************************************************************)
(* The peer network: every node runs the RPC server over its own StateDB,  *)
(* mempool and chain, and posts to every other node through the P2P        *)
(* manager.  A node is [accounts, pending, known, head]: known is the set  *)
(* of blocks its blocksByHash index holds.  A request in flight is         *)
(* [to, path, body]; the network is the bag of them.                       *)
(***************************************************************************)
MaxSubmissions == 1

GossipTxs == {TxPay, TxNoGas}

\* The miner address each node was started with.
Miner(n) == <<"P", "V", "W">>[n]

\* Mutant: what a peer sent is posted on to every peer of the receiver.
MutRelayToPeers(n) == Nodes \ {n}

\* The peers handleP2PTx and handleP2PBlock post an accepted item to: the
\* handlers call neither BroadcastTx nor BroadcastBlock.
P2PRelays(n) == {}

\* Manager.BroadcastTx / BroadcastBlock of node n: one post per peer.
Broadcast(n) == Nodes \ {n}

\* The requests that posting body to path on every node of the set makes.
Posts(to, path, body) == SetToBag({[to |-> n, path |-> path, body |-> body] : n \in to})

\* Blockchain.AddBlock on the chain and StateDB of one node; finalRoot is
\* what its StateRoot() call returns.
AddBlockAt(node, b, finalRoot) ==
    LET rejected(e) == [err |-> e, node |-> node]
        parents == {k \in node.known : BlockHash(k) = b.header.parentHash}
    IN  IF BlockValidateBasic(b) # NoError THEN rejected(BlockValidateBasic(b))
        ELSE IF b.header.height = 0 THEN rejected("genesis already exists")
        ELSE IF parents = {} THEN rejected("unknown parent block")
        ELSE IF ~HeightContinues(b.header.height, TheOnly(parents).header.height)
        THEN rejected("invalid height")
        ELSE TheOnly({ IF ex.err # NoError THEN rejected(ex.err)
                       ELSE IF finalRoot # b.header.stateRoot THEN rejected("state root mismatch")
                       ELSE [err |-> NoError,
                             node |-> [node EXCEPT !.accounts = ex.st.accounts,
                                                   !.known = @ \cup {b}, !.head = b]]
                       : ex \in {ExecuteBlock([accounts |-> node.accounts, snapshots |-> <<>>],
                                              config, b)} })

\* The account map the node's AddBlock computes the root of.
ExecutedAt(node, b) ==
    ExecuteBlock([accounts |-> node.accounts, snapshots |-> <<>>], config, b).st.accounts

InitGossip ==
    /\ accounts = GenesisAccounts
    /\ snapshots = <<>>
    /\ execCurrent = NilPtr
    /\ blocks = EmptyMap
    /\ blocksByHash = EmptyMap
    /\ blocksByHeight = EmptyMap
    /\ head = NilPtr
    /\ config = MainConfig
    /\ last = [op |-> "New", err |-> NoError]
    /\ lowBal = 0
    /\ mark = NoMark
    /\ ledger = NoLedger
    /\ pending = <<>>
    /\ admitted = <<>>
    /\ inflight = Idle
    /\ witnessQueue = <<>>
    /\ validatorVotes = <<>>
    /\ network = EmptyBag
    /\ peers = [n \in Nodes |-> [accounts |-> GenesisAccounts, pending |-> <<>>,
                                 known |-> {GenesisBlock}, head |-> GenesisBlock]]
    /\ traffic = [submitted |-> 0, produced |-> 0, posted |-> 0]
    /\ witnessLog = NoWitnesses
    /\ StepInit

GossipUnchanged ==
    UNCHANGED <<accounts, snapshots, execCurrent, blocks, blocksByHash, blocksByHeight, head,
                config, lowBal, mark, ledger, pending, admitted, inflight,
                witnessQueue, validatorVotes, witnessLog, stepVars>>

\* Server.handleSendTx on node n: ValidateBasic, Mempool.AddTx, and the relay
\* to the peers when the pool took the transaction.
HandleSendTx(n, tx) ==
    /\ traffic.submitted < MaxSubmissions
    /\ \E sorted \in SortByLowerGasPrice(peers[n].pending) :
       \E r \in {IF TxValidateBasic(tx) # NoError
                 THEN [err |-> TxValidateBasic(tx), pending |-> peers[n].pending]
                 ELSE MempoolAddTx(peers[n].pending, peers[n].accounts, tx, sorted)} :
         /\ peers' = [peers EXCEPT ![n].pending = r.pending]
         /\ last' = [op |-> "handleSendTx", err |-> r.err, node |-> n]
         /\ IF r.err # NoError
            THEN UNCHANGED <<network, traffic>>
            ELSE /\ network' = network (+) Posts(Broadcast(n), "/p2p/tx", tx)
                 /\ traffic' = [traffic EXCEPT !.submitted = @ + 1,
                                               !.posted = @ + Cardinality(Broadcast(n))]
    /\ GossipUnchanged

\* Server.handleP2PTx on the node a posted transaction is addressed to.
HandleP2PTx(req) ==
    /\ req.path = "/p2p/tx"
    /\ \E n \in {req.to}, tx \in {req.body} :
       \E sorted \in SortByLowerGasPrice(peers[n].pending) :
       \E r \in {IF TxValidateBasic(tx) # NoError
                 THEN [err |-> TxValidateBasic(tx), pending |-> peers[n].pending]
                 ELSE MempoolAddTx(peers[n].pending, peers[n].accounts, tx, sorted)} :
         /\ peers' = [peers EXCEPT ![n].pending = r.pending]
         /\ last' = [op |-> "handleP2PTx", err |-> r.err, node |-> n]
         /\ \E posts \in {Posts(IF r.err = NoError THEN P2PRelays(n) ELSE {}, "/p2p/tx", tx)} :
              /\ network' = (network (-) SetToBag({req})) (+) posts
              /\ traffic' = [traffic EXCEPT !.posted = @ + BagCardinality(posts)]
    /\ GossipUnchanged

\* Server.handleP2PBlock on the node a posted block is addressed to.
HandleP2PBlock(req) ==
    /\ req.path = "/p2p/block"
    /\ \E n \in {req.to}, b \in {req.body} :
       \E finalRoot \in StateRootOutcomes(ExecutedAt(peers[n], b)) :
       \E r \in {AddBlockAt(peers[n], b, finalRoot)} :
         /\ peers' = [peers EXCEPT ![n] = r.node]
         /\ last' = [op |-> "handleP2PBlock", err |-> r.err, node |-> n]
         /\ \E posts \in {Posts(IF r.err = NoError THEN P2PRelays(n) ELSE {}, "/p2p/block", b)} :
              /\ network' = (network (-) SetToBag({req})) (+) posts
              /\ traffic' = [traffic EXCEPT !.posted = @ + BagCardinality(posts)]
    /\ GossipUnchanged

\* One tick of the miner loop of node n that popped something: produceBlock
\* with its dry run, Chain.AddBlock and, when the block was committed, the
\* relay to the peers.
ProduceBlock(n) ==
    /\ Len(peers[n].pending) > 0
    /\ peers[n].head.header.height < MaxHeight
    /\ \E sorted \in SortByHigherGasPrice(peers[n].pending) :
       \E pop \in {PopForBlock(peers[n].pending, BlockTxLimit, sorted)} :
       \E node \in {[peers[n] EXCEPT !.pending = pop.pending]} :
       \E hdr \in {Sealed(BlockHash(node.head), node.head.header.height + 1, pop.selected,
                          Miner(n), ZeroHash).header} :
       \E dry \in {DryRun([accounts |-> node.accounts, snapshots |-> <<>>], config, hdr,
                          pop.selected)} :
         IF dry.err # NoError
         THEN /\ peers' = [peers EXCEPT ![n] = node]
              /\ last' = [op |-> "produceBlock", err |-> dry.err, node |-> n]
              /\ UNCHANGED <<network, traffic>>
         ELSE \E dryRoot \in StateRootOutcomes(dry.executed) :
              \E b \in {Sealed(hdr.parentHash, hdr.height, pop.selected, Miner(n), dryRoot)} :
              \E finalRoot \in StateRootOutcomes(ExecutedAt(node, b)) :
              \E r \in {AddBlockAt(node, b, finalRoot)} :
                /\ peers' = [peers EXCEPT ![n] = r.node]
                /\ last' = [op |-> "produceBlock", err |-> r.err, node |-> n]
                /\ IF r.err # NoError
                   THEN UNCHANGED <<network, traffic>>
                   ELSE /\ network' = network (+) Posts(Broadcast(n), "/p2p/block", b)
                        /\ traffic' = [traffic EXCEPT !.produced = @ + 1,
                                                      !.posted = @ + Cardinality(Broadcast(n))]
    /\ GossipUnchanged

NextGossip ==
    \/ \E n \in Nodes, tx \in GossipTxs : HandleSendTx(n, tx)
    \/ \E req \in BagToSet(network) : HandleP2PTx(req)
    \/ \E req \in BagToSet(network) : HandleP2PBlock(req)
    \/ \E n \in Nodes : ProduceBlock(n)

SpecGossip == InitGossip /\ [][NextGossip]_vars

\* A step of one of the two peer ingress handlers.
PeerIngress == last'.op \in {"handleP2PTx", "handleP2PBlock"}

\* C23: a step of handleP2PTx or handleP2PBlock consumes its request and
\* posts nothing, whether the item was accepted or not; requests are posted
\* only for client-submitted transactions the pool took and for blocks the
\* node produced and committed, one per peer, so the number of requests
\* ever posted is bounded by the submissions: at most one post per peer for
\* each submission and each produced block, and no more produced blocks
\* than copies of submitted transactions.
C23_PeerIngressNeverRelays ==
    [][/\ PeerIngress => /\ traffic'.posted = traffic.posted
                         /\ BagCardinality(network') = BagCardinality(network) - 1
       /\ traffic'.posted = (NumNodes - 1) * (traffic'.submitted + traffic'.produced)
       /\ traffic'.produced <= NumNodes * traffic'.submitted]_vars

\* A peer took a transaction from /p2p/tx into its pool and a block from
\* /p2p/block into its chain, and nothing is in flight.
C23_Witness ==
    /\ last.op = "handleP2PBlock"
    /\ last.err = NoError
    /\ traffic.submitted > 0
    /\ traffic.produced > 0
    /\ network = EmptyBag

====
